---- MODULE Spec2Model ----
(***************************************************************************)
(* Device real-time state synchronisation layer of the PrajnaBots          *)
(* dashboard: the hosted key-path store, the ESP32 control operations      *)
(* (js/core/esp32-control.js), device provisioning and deletion            *)
(* (database-init), the dust level taken from the weather providers        *)
(* (weather-api), and the dashboard's device selection and cleaning        *)
(* buttons.                                                                *)
(*                                                                         *)
(* The store is a map from leaf paths (sequences of keys) to leaf values;  *)
(* a subtree exists when some leaf lies below it.  Time is counted in      *)
(* hours (1000*60*60 ms), so the code's divisor 1000*60*60*24 ms is        *)
(* HoursPerDay hours.                                                      *)
(***************************************************************************)
EXTENDS Integers, Sequences, FiniteSets, TLC

VARIABLES db, now, selectedDeviceId, deviceListeners, subscriptions, localStorage,
          lastOp

vars == <<db, now, selectedDeviceId, deviceListeners, subscriptions, localStorage, lastOp>>

(***************************************************************************)
(* Bounds and input sets                                                   *)
(***************************************************************************)
MaxTime == 2

\* callbacks the dashboard may pile up on one path
MaxSubscriptions == 2

ActiveIds == {"d1"}
UserIds == {"u1", "u2"}
\* the keys push() can generate
DeviceKeys == {"d1", "d2"}
Triggers == {0, 1}
Methods == {"dry", "wet"}
Pwms == {200}
Progresses == {99, 100, 101}
WaterAmounts == {3}
ErrorMessages == {"motor stalled"}
Schedules == {"daily", "weekly", "monthly"}
DustThresholds == {50, 100}
DustLevels == {0, 49, 50, 99, 100, 101, 150}
Temperatures == {44, 45, 46}

(***************************************************************************)
(* JSON values: a wrapped leaf <<v>>, or null                              *)
(***************************************************************************)
Null == <<>>

Some(v) == <<v>>

\* a leaf value written at a path
Leaf(v) == (<<>> :> Some(v))

(***************************************************************************)
(* The hosted store                                                        *)
(***************************************************************************)
IsPrefix(a, b) == Len(a) <= Len(b) /\ SubSeq(b, 1, Len(a)) = a

\* snapshot.exists() of the node at path
Exists(store, path) == \E p \in DOMAIN store : IsPrefix(path, p)

\* update(ref(database), updates): every updated path is replaced by its new
\* value (null and null-valued keys are dropped), all other leaves are kept
Update(store, updates) ==
  LET pairs == UNION {{<<u, r>> : r \in DOMAIN updates[u]} : u \in DOMAIN updates}
      written == {ur \in pairs : updates[ur[1]][ur[2]] # Null}
      newPaths == {ur[1] \o ur[2] : ur \in written}
      kept == {p \in DOMAIN store : ~\E u \in DOMAIN updates : IsPrefix(u, p)}
  IN  [q \in kept \cup newPaths |->
         IF q \in newPaths
         THEN LET ur == CHOOSE x \in written : x[1] \o x[2] = q
              IN  updates[ur[1]][ur[2]][1]
         ELSE store[q]]

\* set(ref(database, path), value)
Set(store, path, value) == Update(store, (path :> value))

DevicePath(deviceId, rel) == <<"devices", deviceId>> \o rel

CC(deviceId, rel) == DevicePath(deviceId, <<"cleaningControl">> \o rel)

(***************************************************************************)
(* Object literals: K("key", v) is {key: v}, KNull("key") is {key: null},  *)
(* Nest("key", obj) is {key: obj}, and @@ joins the keys of two objects    *)
(***************************************************************************)
K(key, v) == (<<key>> :> Some(v))

KNull(key) == (<<key>> :> Null)

Nest(key, obj) == [p \in {<<key>> \o r : r \in DOMAIN obj} |-> obj[Tail(p)]]

\* a || b on strings and on numbers
StrOr(a, b) == IF a = "" THEN b ELSE a

NumOr(a, b) == IF a = 0 THEN b ELSE a

HoursPerDay == 24

\* new Date().toISOString().split('T')[0]: the UTC day of the clock reading
DateOf(t) == t \div HoursPerDay

(***************************************************************************)
(* Provisioning defaults (addDeviceToUser)                                 *)
(***************************************************************************)
NoDeviceInfo == [name |-> "", location |-> "", panelRating |-> 0, lat |-> 0, lon |-> 0]

DeviceData(userId, deviceInfo, t) ==
  Nest("info",
       K("name", StrOr(deviceInfo.name, "Solar Panel Device"))
    @@ K("location", StrOr(deviceInfo.location, "Not specified"))
    @@ K("installDate", DateOf(t))
    @@ K("panelRating", NumOr(deviceInfo.panelRating, 300))
    @@ K("lat", NumOr(deviceInfo.lat, 0))
    @@ K("lon", NumOr(deviceInfo.lon, 0))
    @@ K("ownerId", userId)
    @@ K("lastUpdated", t)
    @@ K("status", "online"))
  @@ Nest("environment",
       K("humidity", 0) @@ K("temperature", 0) @@ K("dustPresence", 0)
    @@ K("timestamp", t))
  @@ Nest("panelParameters",
       K("voltage", 0) @@ K("current", 0) @@ K("power", 0) @@ K("timestamp", t))
  @@ Nest("panelStatus",
       K("dustLevel", 0)
    @@ K("dustCategory", "light")
    @@ K("currentEfficiency", 0)
    @@ Nest("dailyLoss", K("kwh", 0) @@ K("percentage", 0) @@ K("currency", 0))
    @@ Nest("weeklyLoss", K("kwh", 0) @@ K("avgPercentage", 0))
    @@ Nest("monthlyLoss", K("kwh", 0) @@ K("avgPercentage", 0))
    @@ K("lastUpdated", t))
  @@ Nest("cleaningControl",
       K("mode", "manual")
    @@ K("method", "dry")
    @@ K("status", "idle")
    @@ K("pwmDry", 150)
    @@ K("pwmWet", 180)
    @@ K("trigger", 0)
    @@ Nest("autoSettings",
            K("enabled", FALSE)
         @@ K("dustThreshold", 100)
         @@ K("scheduleEnabled", FALSE)
         @@ K("schedule", "daily")
         @@ KNull("lastCleaning")
         @@ KNull("nextScheduled"))
    @@ Nest("currentOperation",
            KNull("startTime")
         @@ K("progress", 0)
         @@ K("waterUsed", 0)
         @@ KNull("estimatedCompletion"))
    @@ K("lastUpdated", t))

\* variant: the device subtree is written without the owner's reference
ProvisionedWithoutReference(store, userId, deviceId, deviceInfo, t) ==
  Set(store, DevicePath(deviceId, <<>>), DeviceData(userId, deviceInfo, t))

\* the two writes of a successful addDeviceToUser(userId, deviceInfo) that
\* generated deviceId: the owner's reference, then the device subtree
Provisioned(store, userId, deviceId, deviceInfo, t) ==
  Set(Set(store, <<"users", userId, "devices", deviceId>>, Leaf(TRUE)),
      DevicePath(deviceId, <<>>), DeviceData(userId, deviceInfo, t))

EmptyStore == [p \in {} |-> Null]

\* window.localStorage with no item
NoItems == [key \in {} |-> Null]

\* variant: the owner's reference is taken back when provisioning fails
OwnerReferenceRolledBack(store, userId, deviceId) == store

\* await set(ref(database, `users/${userId}/devices/${deviceId}`), true)
OwnerReferenceAdded(store, userId, deviceId) ==
  Set(store, <<"users", userId, "devices", deviceId>>, Leaf(TRUE))

\* variant: the whole device list of the user is removed
DeviceRemovedWithList(store, userId, deviceId) ==
  Set(Set(store, <<"users", userId, "devices">>, (<<>> :> Null)),
      DevicePath(deviceId, <<>>), (<<>> :> Null))

\* the two writes of a successful deleteDevice(userId, deviceId)
DeviceRemoved(store, userId, deviceId) ==
  Set(Set(store, <<"users", userId, "devices", deviceId>>, (<<>> :> Null)),
      DevicePath(deviceId, <<>>), (<<>> :> Null))

NoUpdates == [p \in {} |-> Null]

(***************************************************************************)
(* ESP32 control operations: the updates object each one builds            *)
(***************************************************************************)
\* trigger === 1 ? 'cleaning' : 'idle'
StatusFor(trigger) == IF trigger = 1 THEN "cleaning" ELSE "idle"

\* variant: the dry field is written for either method
PwmFieldAlwaysDry(method) == "pwmDry"

\* if (method === 'dry') pwmDry else pwmWet
PwmField(method) == IF method = "dry" THEN "pwmDry" ELSE "pwmWet"

\* variant: the operation is initialised by every command
StartingAlways(trigger) == TRUE

\* if (trigger === 1): the operation is initialised
Starting(trigger) == trigger = 1

\* t1 and t2 are the two Date.now() readings of the call
SendCleaningCommandUpdates(deviceId, trigger, method, pwm, t1, t2) ==
     (CC(deviceId, <<"trigger">>) :> Leaf(trigger))
  @@ (CC(deviceId, <<"method">>) :> Leaf(method))
  @@ (CC(deviceId, <<PwmField(method)>>) :> Leaf(pwm))
  @@ (CC(deviceId, <<"status">>) :> Leaf(StatusFor(trigger)))
  @@ (CC(deviceId, <<"lastUpdated">>) :> Leaf(t1))
  @@ (IF Starting(trigger)
      THEN    (CC(deviceId, <<"currentOperation", "startTime">>) :> Leaf(t2))
           @@ (CC(deviceId, <<"currentOperation", "progress">>) :> Leaf(0))
           @@ (CC(deviceId, <<"currentOperation", "waterUsed">>) :> Leaf(0))
      ELSE NoUpdates)

\* variant: exactly 100 does not complete
ProgressCompleteStrict(progress) == progress > 100

\* if (progress >= 100)
ProgressComplete(progress) == progress >= 100

\* variant: a completed cleaning clears the stored dust level
UpdateCleaningProgressUpdatesClearingDust(deviceId, progress, waterUsed, t) ==
     (CC(deviceId, <<"currentOperation", "progress">>) :> Leaf(progress))
  @@ (CC(deviceId, <<"currentOperation", "waterUsed">>) :> Leaf(waterUsed))
  @@ (IF ProgressComplete(progress)
      THEN    (CC(deviceId, <<"status">>) :> Leaf("completed"))
           @@ (CC(deviceId, <<"trigger">>) :> Leaf(0))
           @@ (CC(deviceId, <<"autoSettings", "lastCleaning">>) :> Leaf(t))
           @@ (DevicePath(deviceId, <<"panelStatus", "dustLevel">>) :> Leaf(0))
      ELSE NoUpdates)

UpdateCleaningProgressUpdates(deviceId, progress, waterUsed, t) ==
     (CC(deviceId, <<"currentOperation", "progress">>) :> Leaf(progress))
  @@ (CC(deviceId, <<"currentOperation", "waterUsed">>) :> Leaf(waterUsed))
  @@ (IF ProgressComplete(progress)
      THEN    (CC(deviceId, <<"status">>) :> Leaf("completed"))
           @@ (CC(deviceId, <<"trigger">>) :> Leaf(0))
           @@ (CC(deviceId, <<"autoSettings", "lastCleaning">>) :> Leaf(t))
      ELSE NoUpdates)

\* variant: the trigger is not reset
ReportErrorUpdatesKeepTrigger(deviceId, errorMessage, t) ==
     (CC(deviceId, <<"status">>) :> Leaf("error"))
  @@ (CC(deviceId, <<"lastError">>) :> (K("message", errorMessage) @@ K("timestamp", t)))

ReportErrorUpdates(deviceId, errorMessage, t) ==
     (CC(deviceId, <<"status">>) :> Leaf("error"))
  @@ (CC(deviceId, <<"trigger">>) :> Leaf(0))
  @@ (CC(deviceId, <<"lastError">>) :> (K("message", errorMessage) @@ K("timestamp", t)))

(***************************************************************************)
(* Dashboard: batchUpdateDevice and the start / stop buttons               *)
(***************************************************************************)
\* formattedUpdates[`devices/${deviceId}/${key}`] = updates[key]
BatchUpdateDeviceUpdates(deviceId, updates) ==
  [p \in {DevicePath(deviceId, k) : k \in DOMAIN updates} |->
     updates[SubSeq(p, 3, Len(p))]]

\* variant: a running operation keeps its progress and water count
StartCleaningUpdatesResuming(t) ==
     (<<"cleaningControl", "trigger">> :> Leaf(1))
  @@ (<<"cleaningControl", "status">> :> Leaf("cleaning"))
  @@ (<<"cleaningControl", "currentOperation", "startTime">> :> Leaf(t))

StartCleaningUpdates(t) ==
     (<<"cleaningControl", "trigger">> :> Leaf(1))
  @@ (<<"cleaningControl", "status">> :> Leaf("cleaning"))
  @@ (<<"cleaningControl", "currentOperation", "startTime">> :> Leaf(t))
  @@ (<<"cleaningControl", "currentOperation", "progress">> :> Leaf(0))
  @@ (<<"cleaningControl", "currentOperation", "waterUsed">> :> Leaf(0))

\* variant: the stop button leaves the trigger as it is
StopCleaningUpdatesKeepTrigger ==
  (<<"cleaningControl", "status">> :> Leaf("idle"))

StopCleaningUpdates ==
     (<<"cleaningControl", "trigger">> :> Leaf(0))
  @@ (<<"cleaningControl", "status">> :> Leaf("idle"))

(***************************************************************************)
(* Telemetry ingestion (updateSensorData)                                  *)
(***************************************************************************)
\* a field of a report read as field || 0: absent (undefined) and 0 give 0
OrZero(field) == IF field = Null THEN 0 ELSE NumOr(field[1], 0)

\* variant: the report's own fields win over the ingestion timestamp
StampedKeepingReport(section, t) == section @@ K("timestamp", t)

\* { ...section, timestamp }: the ingestion timestamp replaces the report's
Stamped(section, t) == K("timestamp", t) @@ section

\* variant: a power value in the report is stored instead of the product
PowerOfPreferringReport(parameters) ==
  IF parameters.power # Null
  THEN parameters.power[1]
  ELSE OrZero(parameters.voltage) * OrZero(parameters.current)

\* const power = voltage * current
PowerOf(parameters) == OrZero(parameters.voltage) * OrZero(parameters.current)

\* the panelParameters object written for a parameters section
PanelParametersOf(parameters, t) ==
     K("voltage", OrZero(parameters.voltage))
  @@ K("current", OrZero(parameters.current))
  @@ K("power", PowerOf(parameters))
  @@ K("timestamp", t)

\* variant: a report also puts the cleaning status back to 'idle'
UpdateSensorDataUpdatesResetting(deviceId, sensorData, t) ==
     (DevicePath(deviceId, <<"info", "lastUpdated">>) :> Leaf(t))
  @@ (DevicePath(deviceId, <<"info", "status">>) :> Leaf("online"))
  @@ (CC(deviceId, <<"status">>) :> Leaf("idle"))

\* the updates object of updateSensorData(deviceId, sensorData) at time t; a
\* section of sensorData is Null when the report does not carry it
UpdateSensorDataUpdates(deviceId, sensorData, t) ==
     (IF sensorData.environment # Null
      THEN (DevicePath(deviceId, <<"environment">>)
              :> Stamped(sensorData.environment[1], t))
      ELSE NoUpdates)
  @@ (IF sensorData.parameters # Null
      THEN (DevicePath(deviceId, <<"panelParameters">>)
              :> PanelParametersOf(sensorData.parameters[1], t))
      ELSE NoUpdates)
  @@ (DevicePath(deviceId, <<"info", "lastUpdated">>) :> Leaf(t))
  @@ (DevicePath(deviceId, <<"info", "status">>) :> Leaf("online"))

(***************************************************************************)
(* Auto-cleaning decision rules                                            *)
(***************************************************************************)
\* a boolean field read in a condition: absent (undefined) is falsy
TruthyFlag(store, path) == path \in DOMAIN store /\ store[path] = TRUE

\* a numeric field read in a condition: absent (undefined) and 0 are falsy
TruthyNumber(store, path) == path \in DOMAIN store /\ store[path] # 0

\* variant: the enabled flag is not consulted
AutoEnabledIgnored(store, deviceId) == TRUE

\* if (!autoSettings.enabled) return false
AutoEnabled(store, deviceId) ==
  TruthyFlag(store, CC(deviceId, <<"autoSettings", "enabled">>))

\* variant: the threshold itself does not trigger
DustThresholdReachedStrict(store, deviceId) ==
  LET level == DevicePath(deviceId, <<"panelStatus", "dustLevel">>)
      threshold == CC(deviceId, <<"autoSettings", "dustThreshold">>)
  IN  /\ level \in DOMAIN store
      /\ threshold \in DOMAIN store
      /\ store[level] > store[threshold]

\* panelStatus.dustLevel >= autoSettings.dustThreshold (false on undefined)
DustThresholdReached(store, deviceId) ==
  LET level == DevicePath(deviceId, <<"panelStatus", "dustLevel">>)
      threshold == CC(deviceId, <<"autoSettings", "dustThreshold">>)
  IN  /\ level \in DOMAIN store
      /\ threshold \in DOMAIN store
      /\ store[level] >= store[threshold]

\* variant: the schedule is evaluated whenever lastCleaning is set
ScheduleCheckedWithoutFlag(store, deviceId) ==
  TruthyNumber(store, CC(deviceId, <<"autoSettings", "lastCleaning">>))

\* autoSettings.scheduleEnabled && autoSettings.lastCleaning
ScheduleChecked(store, deviceId) ==
  /\ TruthyFlag(store, CC(deviceId, <<"autoSettings", "scheduleEnabled">>))
  /\ TruthyNumber(store, CC(deviceId, <<"autoSettings", "lastCleaning">>))

\* variant: the period must be exceeded
DaysSinceAtLeastStrict(t, lastCleaning, days) == t - lastCleaning > days * HoursPerDay

\* daysSinceLastCleaning >= days, with
\* daysSinceLastCleaning = (now - lastCleaning) / (1000 * 60 * 60 * 24)
DaysSinceAtLeast(t, lastCleaning, days) == t - lastCleaning >= days * HoursPerDay

\* switch (autoSettings.schedule)
ScheduleDue(schedule, t, lastCleaning) ==
  CASE schedule = "daily" -> DaysSinceAtLeast(t, lastCleaning, 1)
    [] schedule = "weekly" -> DaysSinceAtLeast(t, lastCleaning, 7)
    [] schedule = "monthly" -> DaysSinceAtLeast(t, lastCleaning, 30)
    [] OTHER -> FALSE

\* the value shouldTriggerAutoCleaning(deviceId) returns when its reads succeed
ShouldTriggerAutoCleaning(store, deviceId, t) ==
  IF \/ ~Exists(store, CC(deviceId, <<"autoSettings">>))
     \/ ~Exists(store, DevicePath(deviceId, <<"panelStatus">>))
  THEN FALSE
  ELSE IF ~AutoEnabled(store, deviceId) THEN FALSE
  ELSE IF DustThresholdReached(store, deviceId) THEN TRUE
  ELSE IF ScheduleChecked(store, deviceId)
       THEN /\ CC(deviceId, <<"autoSettings", "schedule">>) \in DOMAIN store
            /\ ScheduleDue(store[CC(deviceId, <<"autoSettings", "schedule">>)], t,
                           store[CC(deviceId, <<"autoSettings", "lastCleaning">>)])
       ELSE FALSE

\* variant: a dust level of exactly 100 counts as heavy
HeavyDustInclusive(store, deviceId) ==
  LET level == DevicePath(deviceId, <<"panelStatus", "dustLevel">>)
  IN  level \in DOMAIN store /\ store[level] >= 100

\* panelStatus.dustLevel > 100 (false on undefined)
HeavyDust(store, deviceId) ==
  LET level == DevicePath(deviceId, <<"panelStatus", "dustLevel">>)
  IN  level \in DOMAIN store /\ store[level] > 100

\* variant: exactly 45 degrees counts as high
HighTemperatureInclusive(store, deviceId) ==
  LET temperature == DevicePath(deviceId, <<"environment", "temperature">>)
  IN  temperature \in DOMAIN store /\ store[temperature] >= 45

\* environment.temperature > 45 (false on undefined)
HighTemperature(store, deviceId) ==
  LET temperature == DevicePath(deviceId, <<"environment", "temperature">>)
  IN  temperature \in DOMAIN store /\ store[temperature] > 45

\* variant: the two snapshots are used without the exists() test
SelectCleaningMethodUnchecked(store, deviceId) ==
  IF HeavyDust(store, deviceId)
  THEN IF HighTemperature(store, deviceId) THEN "dry" ELSE "wet"
  ELSE "dry"

\* the value selectCleaningMethod(deviceId) returns when its reads succeed
SelectCleaningMethod(store, deviceId) ==
  IF \/ ~Exists(store, DevicePath(deviceId, <<"panelStatus">>))
     \/ ~Exists(store, DevicePath(deviceId, <<"environment">>))
  THEN "dry"
  ELSE IF HeavyDust(store, deviceId)
       THEN IF HighTemperature(store, deviceId) THEN "dry" ELSE "wet"
       ELSE "dry"

(***************************************************************************)
(* Dust level from the weather providers                                   *)
(***************************************************************************)
\* a particulate reading of a provider's answer read as reading || 0
\* (readings are drawn so that the sum of the two is even and the average
\* is a whole number)
DustLevelOf(pm2_5, pm10) == (OrZero(pm2_5) + OrZero(pm10)) \div 2

\* variant: a level of exactly 50 is already 'moderate'
DustCategoryOfInclusive(dustLevel) ==
  IF dustLevel > 150 THEN "high"
  ELSE IF dustLevel >= 50 THEN "moderate"
  ELSE "light"

\* let category = 'light'; if (dustLevel > 150) ... else if (dustLevel > 50)
DustCategoryOf(dustLevel) ==
  IF dustLevel > 150 THEN "high"
  ELSE IF dustLevel > 50 THEN "moderate"
  ELSE "light"

\* the object an adapter returns for the particulate readings of an answer
DustDataOf(components) ==
  LET dustLevel == DustLevelOf(components.pm2_5, components.pm10)
  IN  [dustLevel |-> dustLevel, dustCategory |-> DustCategoryOf(dustLevel)]

\* variant: the request is sent even without an API key
FetchOpenWeatherMapDataWithoutKey(apiKey, response) ==
  IF response = Null THEN Null
  ELSE Some(DustDataOf(response[1]))

\* fetchOpenWeatherMapData(lat, lon, apiKey): null without an API key and
\* when the request fails (response is Null), else the dust data of
\* data.list[0].components
FetchOpenWeatherMapData(apiKey, response) ==
  IF apiKey = "" THEN Null
  ELSE IF response = Null THEN Null
  ELSE Some(DustDataOf(response[1]))

\* fetchWeatherAPIData(lat, lon, apiKey): the same on data.current.air_quality
FetchWeatherAPIData(apiKey, response) ==
  IF apiKey = "" THEN Null
  ELSE IF response = Null THEN Null
  ELSE Some(DustDataOf(response[1]))

WeatherConfigPath == <<"config", "weatherAPI">>

\* getWeatherConfig(): the stored configuration, or the default one
WeatherConfig(store) ==
  IF Exists(store, WeatherConfigPath)
  THEN [provider |-> store[WeatherConfigPath \o <<"provider">>],
        apiKey |-> store[WeatherConfigPath \o <<"apiKey">>]]
  ELSE [provider |-> "openweathermap", apiKey |-> ""]

\* variant: stored coordinates count as a location, 0 included
LocationSetWhenStored(store, deviceId) ==
  /\ DevicePath(deviceId, <<"info", "lat">>) \in DOMAIN store
  /\ DevicePath(deviceId, <<"info", "lon">>) \in DOMAIN store

\* if (!lat || !lon) throw
LocationSet(store, deviceId) ==
  /\ TruthyNumber(store, DevicePath(deviceId, <<"info", "lat">>))
  /\ TruthyNumber(store, DevicePath(deviceId, <<"info", "lon">>))

\* whether updateDustLevel gets as far as calling an adapter
ProviderKnown(config) == config.provider \in {"openweathermap", "weatherapi"}

\* switch (config.provider)
FetchDustData(config, response) ==
  CASE config.provider = "openweathermap" ->
         FetchOpenWeatherMapData(config.apiKey, response)
    [] config.provider = "weatherapi" ->
         FetchWeatherAPIData(config.apiKey, response)
    [] OTHER -> Null

\* the updates object of updateDustLevel(deviceId) at time t
UpdateDustLevelUpdates(deviceId, dustData, t) ==
     (DevicePath(deviceId, <<"panelStatus", "dustLevel">>) :> Leaf(dustData.dustLevel))
  @@ (DevicePath(deviceId, <<"panelStatus", "dustCategory">>)
        :> Leaf(dustData.dustCategory))
  @@ (DevicePath(deviceId, <<"panelStatus", "lastUpdated">>) :> Leaf(t))

(***************************************************************************)
(* State machine of the control subtree                                    *)
(***************************************************************************)
\* the keys of deviceListeners and the subtree each listener is attached to
ListenerKeys == {"environment", "parameters", "status", "cleaning"}

ListenedSubtree(key) ==
  CASE key = "environment" -> "environment"
    [] key = "parameters" -> "panelParameters"
    [] key = "status" -> "panelStatus"
    [] key = "cleaning" -> "cleaningControl"

\* what onValue(ref, callback) returns is identified by the path of ref
ListenerOf(deviceId, key) == DevicePath(deviceId, <<ListenedSubtree(key)>>)

\* let deviceListeners = {}
NoListeners == [key \in {} |-> <<>>]

\* deviceListeners after setupDeviceListeners(deviceId)
ListenersOf(deviceId) == [key \in ListenerKeys |-> ListenerOf(deviceId, key)]

ListenedPaths == {ListenerOf(d, key) : d \in DeviceKeys, key \in ListenerKeys}

\* the number of callbacks the store client has attached to each path
NoSubscriptions == [p \in ListenedPaths |-> 0]

\* the four onValue calls of setupDeviceListeners(deviceId)
Attached(subs, deviceId) ==
  [p \in ListenedPaths |->
     IF p \in {ListenerOf(deviceId, key) : key \in ListenerKeys}
     THEN subs[p] + 1 ELSE subs[p]]

\* the subscriptions of a dashboard that selected deviceId once
SubscribedOnly(deviceId) == Attached(NoSubscriptions, deviceId)

\* a later Date.now() reading within one call
ClockAfter(t) == {t2 \in {t, t + 1} : t2 <= MaxTime}

\* the last call: the operation, its device, whether its store calls went
\* through, and what it returned (its success flag, or the decision)
Op(name, deviceId, storeOk, result) ==
  [name |-> name, deviceId |-> deviceId, storeOk |-> storeOk, result |-> result]

\* the store after user u1 added device d1 at time t
ProvisionedStore(t) == Provisioned(EmptyStore, "u1", "d1", NoDeviceInfo, t)

\* the dashboard has the provisioned device open; the hardware may have moved
\* it to 'scanning'
Init ==
  /\ now = 1
  /\ \E status \in {"idle", "scanning"} :
       db = Set(ProvisionedStore(1), CC("d1", <<"status">>), Leaf(status))
  /\ selectedDeviceId = "d1"
  /\ deviceListeners = ListenersOf("d1")
  /\ subscriptions = SubscribedOnly("d1")
  /\ localStorage = NoItems
  /\ lastOp = Op("init", "", TRUE, TRUE)

Tick ==
  /\ now < MaxTime
  /\ now' = now + 1
  /\ lastOp' = Op("tick", "", TRUE, TRUE)
  /\ UNCHANGED <<db, selectedDeviceId, deviceListeners, subscriptions,
                 localStorage>>

\* await update(ref(database), updates) either applies the whole update
\* (storeOk) or rejects, and the catch block turns the rejection into
\* success: false
SendCleaningCommand(deviceId, trigger, method, pwm, storeOk) ==
  \E t2 \in IF Starting(trigger) THEN ClockAfter(now) ELSE {now} :
    /\ db' = IF storeOk
             THEN Update(db, SendCleaningCommandUpdates(deviceId, trigger, method,
                                                        pwm, now, t2))
             ELSE db
    /\ now' = t2
    /\ lastOp' = Op("sendCleaningCommand", deviceId, storeOk, storeOk)
    /\ UNCHANGED <<selectedDeviceId, deviceListeners, subscriptions,
                   localStorage>>

\* variant: the completion is applied to a cleaning device only
UpdateCleaningProgressGuarded(deviceId, progress, waterUsed, storeOk) ==
    /\ db' = IF storeOk
             THEN Update(db,
                    IF    CC(deviceId, <<"status">>) \in DOMAIN db
                       /\ db[CC(deviceId, <<"status">>)] = "cleaning"
                    THEN UpdateCleaningProgressUpdates(deviceId, progress,
                                                       waterUsed, now)
                    ELSE    (CC(deviceId, <<"currentOperation", "progress">>)
                               :> Leaf(progress))
                         @@ (CC(deviceId, <<"currentOperation", "waterUsed">>)
                               :> Leaf(waterUsed)))
             ELSE db
    /\ lastOp' = Op("updateCleaningProgress", deviceId, storeOk, storeOk)
    /\ UNCHANGED <<now, selectedDeviceId, deviceListeners, subscriptions,
                   localStorage>>

UpdateCleaningProgress(deviceId, progress, waterUsed, storeOk) ==
    /\ db' = IF storeOk
             THEN Update(db, UpdateCleaningProgressUpdates(deviceId, progress,
                                                           waterUsed, now))
             ELSE db
    /\ lastOp' = Op("updateCleaningProgress", deviceId, storeOk, storeOk)
    /\ UNCHANGED <<now, selectedDeviceId, deviceListeners, subscriptions,
                   localStorage>>

ReportError(deviceId, errorMessage, storeOk) ==
    /\ db' = IF storeOk
             THEN Update(db, ReportErrorUpdates(deviceId, errorMessage, now))
             ELSE db
    /\ lastOp' = Op("reportError", deviceId, storeOk, storeOk)
    /\ UNCHANGED <<now, selectedDeviceId, deviceListeners, subscriptions,
                   localStorage>>

\* variant: the update is refused while the device reports an error
BatchUpdateDeviceChecked(name, deviceId, updates, storeOk) ==
  LET status == CC(deviceId, <<"status">>)
      applied == storeOk /\ ~(status \in DOMAIN db /\ db[status] = "error")
  IN  /\ db' = IF applied
               THEN Update(db, BatchUpdateDeviceUpdates(deviceId, updates))
               ELSE db
      /\ lastOp' = Op(name, deviceId, storeOk, applied)
      /\ UNCHANGED <<now, selectedDeviceId, deviceListeners, subscriptions,
                     localStorage>>

\* batchUpdateDevice(deviceId, updates) as called by the dashboard buttons
BatchUpdateDevice(name, deviceId, updates, storeOk) ==
    /\ db' = IF storeOk
             THEN Update(db, BatchUpdateDeviceUpdates(deviceId, updates))
             ELSE db
    /\ lastOp' = Op(name, deviceId, storeOk, storeOk)
    /\ UNCHANGED <<now, selectedDeviceId, deviceListeners, subscriptions,
                   localStorage>>

\* if (!selectedDeviceId) return
StartCleaning(storeOk) ==
  /\ selectedDeviceId # ""
  /\ BatchUpdateDevice("startCleaning", selectedDeviceId, StartCleaningUpdates(now),
                       storeOk)

StopCleaning(storeOk) ==
  /\ selectedDeviceId # ""
  /\ BatchUpdateDevice("stopCleaning", selectedDeviceId, StopCleaningUpdates, storeOk)

\* normal operation: the store accepts every update
Next ==
  \/ Tick
  \/ \E deviceId \in ActiveIds, trigger \in Triggers, method \in Methods, pwm \in Pwms :
       SendCleaningCommand(deviceId, trigger, method, pwm, TRUE)
  \/ \E deviceId \in ActiveIds, progress \in Progresses, waterUsed \in WaterAmounts :
       UpdateCleaningProgress(deviceId, progress, waterUsed, TRUE)
  \/ \E deviceId \in ActiveIds, errorMessage \in ErrorMessages :
       ReportError(deviceId, errorMessage, TRUE)
  \/ StartCleaning(TRUE)
  \/ StopCleaning(TRUE)

Spec == Init /\ [][Next]_vars

\* start and stop commands of both origins between the device's reports, while
\* time passes
NextRestart ==
  \/ Tick
  \/ \E trigger \in Triggers : SendCleaningCommand("d1", trigger, "dry", 200, TRUE)
  \/ \E progress \in {99, 100} : UpdateCleaningProgress("d1", progress, 3, TRUE)
  \/ ReportError("d1", "motor stalled", TRUE)
  \/ StartCleaning(TRUE)
  \/ StopCleaning(TRUE)

SpecRestart == Init /\ [][NextRestart]_vars

\* the same calls against a store that may reject any update
NextReject ==
  \E storeOk \in BOOLEAN :
    \/ \E deviceId \in ActiveIds, trigger \in Triggers, method \in Methods, pwm \in Pwms :
         SendCleaningCommand(deviceId, trigger, method, pwm, storeOk)
    \/ \E deviceId \in ActiveIds, progress \in Progresses, waterUsed \in WaterAmounts :
         UpdateCleaningProgress(deviceId, progress, waterUsed, storeOk)
    \/ \E deviceId \in ActiveIds, errorMessage \in ErrorMessages :
         ReportError(deviceId, errorMessage, storeOk)
    \/ StartCleaning(storeOk)
    \/ StopCleaning(storeOk)

SpecReject == Init /\ [][NextReject]_vars

(***************************************************************************)
(* State machine of telemetry ingestion                                    *)
(***************************************************************************)
\* the device's own clock reading, which a report may carry as timestamp
DeviceUptime == 0

\* environment sections of a report, with and without a timestamp
EnvironmentSections ==
  {K("humidity", 40) @@ K("temperature", temperature) @@ K("dustPresence", 1) @@ stamp :
     temperature \in {44, 46}, stamp \in {NoUpdates, K("timestamp", DeviceUptime)}}

\* parameters sections of a report: voltage and current, and sometimes the
\* power the device measured itself
ParametersSections ==
  [voltage : {Null, Some(0), Some(12)}, current : {Some(0), Some(2)},
   power : {Null, Some(5)}]

SensorReports ==
  [environment : {Null} \cup {Some(e) : e \in EnvironmentSections},
   parameters : {Null} \cup {Some(q) : q \in ParametersSections}]

\* isOnline ? 'online' : 'offline'
StatusOf(isOnline) == IF isOnline THEN "online" ELSE "offline"

\* setDeviceStatus(deviceId, isOnline)
SetDeviceStatus(deviceId, isOnline, storeOk) ==
    /\ db' = IF storeOk
             THEN Update(db, (DevicePath(deviceId, <<"info", "status">>)
                                :> Leaf(StatusOf(isOnline)))
                          @@ (DevicePath(deviceId, <<"info", "lastUpdated">>) :> Leaf(now)))
             ELSE db
    /\ lastOp' = Op("setDeviceStatus", deviceId, storeOk, storeOk)
    /\ UNCHANGED <<now, selectedDeviceId, deviceListeners, subscriptions,
                   localStorage>>

UpdateSensorData(deviceId, sensorData, storeOk) ==
    /\ db' = IF storeOk
             THEN Update(db, UpdateSensorDataUpdates(deviceId, sensorData, now))
             ELSE db
    /\ lastOp' = Op("updateSensorData", deviceId, storeOk, storeOk)
                    @@ [sensorData |-> sensorData]
    /\ UNCHANGED <<now, selectedDeviceId, deviceListeners, subscriptions,
                   localStorage>>

NextTelemetry ==
  \/ Tick
  \/ \E deviceId \in ActiveIds, sensorData \in SensorReports :
       UpdateSensorData(deviceId, sensorData, TRUE)
  \/ \E deviceId \in ActiveIds, isOnline \in BOOLEAN :
       SetDeviceStatus(deviceId, isOnline, TRUE)

SpecTelemetry == Init /\ [][NextTelemetry]_vars

(***************************************************************************)
(* State machine of the dust-level updates                                 *)
(***************************************************************************)
\* d2 was never provisioned
WeatherIds == {"d1", "d2"}

\* latitude and longitude given when the device was added; 0 is stored when
\* none was given
Coordinates == {<<0, 0>>, <<0, 77>>, <<12, 0>>, <<12, 77>>}

\* config/weatherAPI: absent, as initializeGlobalConfig writes it, or edited
WeatherConfigs ==
  {Null,
   Some([provider |-> "openweathermap", apiKey |-> ""]),
   Some([provider |-> "openweathermap", apiKey |-> "key"]),
   Some([provider |-> "weatherapi", apiKey |-> "key"]),
   Some([provider |-> "accuweather", apiKey |-> "key"])}

\* the particulate readings (pm2_5, pm10) of a provider's answer, around the
\* category thresholds; Null is a reading the answer does not carry
PmReadings ==
  {<<Null, Some(60)>>, <<Some(40), Some(60)>>, <<Some(40), Some(64)>>,
   <<Some(140), Some(160)>>, <<Some(140), Some(164)>>}

\* what a provider answers: Null for a failed request (network error, HTTP
\* status, no pollution data), else its particulate readings
WeatherResponses ==
  {Null} \cup {Some([pm2_5 |-> r[1], pm10 |-> r[2]]) : r \in PmReadings}

InitWeather ==
  /\ now = 1
  /\ \E c \in Coordinates, config \in WeatherConfigs :
       LET device == Provisioned(EmptyStore, "u1", "d1",
                                 [NoDeviceInfo EXCEPT !.lat = c[1], !.lon = c[2]], 1)
       IN  db = IF config = Null
                THEN device
                ELSE Set(device, WeatherConfigPath,
                         K("provider", config[1].provider)
                      @@ K("apiKey", config[1].apiKey)
                      @@ K("updateInterval", 1800000))
  /\ selectedDeviceId = "d1"
  /\ deviceListeners = ListenersOf("d1")
  /\ subscriptions = SubscribedOnly("d1")
  /\ localStorage = NoItems
  /\ lastOp = Op("init", "", TRUE, TRUE)

\* updateDustLevel(deviceId): readOk is whether the reads of info and of the
\* configuration go through, storeOk whether the update does; every throw
\* ends in the catch block, which returns success: false. fetches counts
\* the requests sent to the provider
UpdateDustLevel(deviceId, response, readOk, storeOk) ==
  LET config == WeatherConfig(db)
      asked == /\ readOk
               /\ Exists(db, DevicePath(deviceId, <<"info">>))
               /\ LocationSet(db, deviceId)
               /\ ProviderKnown(config)
      dustData == IF asked THEN FetchDustData(config, response) ELSE Null
      written == dustData # Null /\ storeOk
  IN  /\ db' = IF written
               THEN Update(db, UpdateDustLevelUpdates(deviceId, dustData[1], now))
               ELSE db
      /\ lastOp' = Op("updateDustLevel", deviceId, readOk /\ storeOk, written)
                      @@ [response |-> response,
                          fetches |-> IF asked /\ config.apiKey # "" THEN 1 ELSE 0]
      /\ UNCHANGED <<now, selectedDeviceId, deviceListeners, subscriptions,
                     localStorage>>

NextWeather ==
  \/ Tick
  \/ \E deviceId \in WeatherIds, response \in WeatherResponses,
        readOk \in BOOLEAN, storeOk \in BOOLEAN :
       UpdateDustLevel(deviceId, response, readOk, storeOk)

SpecWeather == InitWeather /\ [][NextWeather]_vars

(***************************************************************************)
(* State machine of provisioning and deletion                              *)
(***************************************************************************)
\* the dashboard's form left empty
DeviceInfos == {NoDeviceInfo}

\* push(...).key is a key no device has: none that is referenced by a user
\* or has a subtree
FreshKeys(store) ==
  {k \in DeviceKeys :
     /\ ~Exists(store, DevicePath(k, <<>>))
     /\ \A u \in UserIds : ~Exists(store, <<"users", u, "devices", k>>)}

InitDevices ==
  /\ now = 1
  /\ db = EmptyStore
  /\ selectedDeviceId = ""
  /\ deviceListeners = NoListeners
  /\ subscriptions = NoSubscriptions
  /\ localStorage = NoItems
  /\ lastOp = Op("init", "", TRUE, TRUE)

\* addDeviceToUser(userId, deviceInfo): the two set() calls go through or
\* reject in turn (referenceOk, dataOk); a rejection skips what follows and
\* the catch block returns success: false. writes counts the set() calls
\* that went through
AddDeviceToUser(userId, deviceInfo, referenceOk, dataOk) ==
  \E deviceId \in FreshKeys(db) :
    /\ db' = IF ~referenceOk THEN db
             ELSE IF ~dataOk THEN OwnerReferenceAdded(db, userId, deviceId)
             ELSE Provisioned(db, userId, deviceId, deviceInfo, now)
    /\ lastOp' = Op("addDeviceToUser", deviceId, referenceOk /\ dataOk,
                    referenceOk /\ dataOk)
                    @@ [userId |-> userId,
                        writes |-> IF ~referenceOk THEN 0 ELSE IF ~dataOk THEN 1 ELSE 2]
    /\ UNCHANGED <<now, selectedDeviceId, deviceListeners, subscriptions,
                   localStorage>>

\* deleteDevice(userId, deviceId)
DeleteDevice(userId, deviceId, referenceOk, dataOk) ==
    /\ db' = IF ~referenceOk THEN db
             ELSE IF ~dataOk
             THEN Set(db, <<"users", userId, "devices", deviceId>>, (<<>> :> Null))
             ELSE DeviceRemoved(db, userId, deviceId)
    /\ lastOp' = Op("deleteDevice", deviceId, referenceOk /\ dataOk,
                    referenceOk /\ dataOk)
                    @@ [userId |-> userId,
                        writes |-> IF ~referenceOk THEN 0 ELSE IF ~dataOk THEN 1 ELSE 2]
    /\ UNCHANGED <<now, selectedDeviceId, deviceListeners, subscriptions,
                   localStorage>>

\* variant: a rejected set() is reported as a success
UpdateDeviceDataUncaught(deviceId, path, value, storeOk) ==
    /\ db' = IF storeOk THEN Set(db, DevicePath(deviceId, path), value) ELSE db
    /\ lastOp' = Op("updateDeviceData", deviceId, storeOk, TRUE)
    /\ UNCHANGED <<now, selectedDeviceId, deviceListeners, subscriptions,
                   localStorage>>

\* updateDeviceData(deviceId, path, value)
UpdateDeviceData(deviceId, path, value, storeOk) ==
    /\ db' = IF storeOk THEN Set(db, DevicePath(deviceId, path), value) ELSE db
    /\ lastOp' = Op("updateDeviceData", deviceId, storeOk, storeOk)
    /\ UNCHANGED <<now, selectedDeviceId, deviceListeners, subscriptions,
                   localStorage>>

\* the clock plays no part in these operations and stands still
NextDevices ==
  \/ \E userId \in UserIds, deviceInfo \in DeviceInfos,
        referenceOk \in BOOLEAN, dataOk \in BOOLEAN :
       AddDeviceToUser(userId, deviceInfo, referenceOk, dataOk)
  \/ \E userId \in UserIds, deviceId \in DeviceKeys,
        referenceOk \in BOOLEAN, dataOk \in BOOLEAN :
       DeleteDevice(userId, deviceId, referenceOk, dataOk)
  \/ \E deviceId \in DeviceKeys :
       /\ Exists(db, DevicePath(deviceId, <<>>))
       /\ UpdateDeviceData(deviceId, <<"cleaningControl", "mode">>, Leaf("automatic"),
                           TRUE)

SpecDevices == InitDevices /\ [][NextDevices]_vars

(***************************************************************************)
(* State machine of the dashboard's device selection                       *)
(***************************************************************************)
\* off(deviceListeners[key]) hands off() the function onValue returned, where
\* off() takes the query the listener was attached to: the call removes no
\* listener; it either throws on its argument or returns without effect
OffOutcomes == {"throws", "ignored"}

\* the order in which getUserDevices lists the keys
DeviceOrder == <<"d1", "d2">>

\* Object.keys(snapshot.val()) of users/{userId}/devices
UserDevices(store, userId) ==
  {d \in DeviceKeys : Exists(store, <<"users", userId, "devices", d>>)}

\* deviceIds[0]
FirstDevice(ids) ==
  DeviceOrder[CHOOSE i \in 1..Len(DeviceOrder) :
                /\ DeviceOrder[i] \in ids
                /\ \A j \in 1..(i - 1) : DeviceOrder[j] \notin ids]

\* user u1 opens the dashboard with one or two devices
InitDashboard ==
  /\ now = 1
  /\ \E second \in BOOLEAN :
       db = IF second
            THEN Provisioned(ProvisionedStore(1), "u1", "d2", NoDeviceInfo, 1)
            ELSE ProvisionedStore(1)
  /\ selectedDeviceId = ""
  /\ deviceListeners = NoListeners
  /\ subscriptions = NoSubscriptions
  /\ localStorage = NoItems
  /\ lastOp = Op("init", "", TRUE, TRUE)

\* selectDevice(deviceId): cleanupDeviceListeners() calls off() for the first
\* key of a non-empty deviceListeners; when that throws, the exception leaves
\* selectDevice before anything is assigned; otherwise deviceListeners is
\* emptied, the device is selected and its four listeners are attached
SelectDevice(deviceId, offOutcome) ==
  LET thrown == DOMAIN deviceListeners # {} /\ offOutcome = "throws"
  IN  /\ thrown \/ \A key \in ListenerKeys :
                     subscriptions[ListenerOf(deviceId, key)] < MaxSubscriptions
      /\ IF thrown
         THEN UNCHANGED <<selectedDeviceId, deviceListeners, subscriptions>>
         ELSE /\ selectedDeviceId' = deviceId
              /\ deviceListeners' = ListenersOf(deviceId)
              /\ subscriptions' = Attached(subscriptions, deviceId)
      /\ lastOp' = Op("selectDevice", deviceId, TRUE, ~thrown)
      /\ UNCHANGED <<db, now, localStorage>>

\* loadUserDevices(): auto-select the first device
LoadUserDevices(userId, offOutcome) ==
  /\ UserDevices(db, userId) # {}
  /\ SelectDevice(FirstDevice(UserDevices(db, userId)), offOutcome)

NextDashboard ==
  \/ \E offOutcome \in OffOutcomes : LoadUserDevices("u1", offOutcome)
  \/ \E deviceId \in UserDevices(db, "u1"), offOutcome \in OffOutcomes :
       SelectDevice(deviceId, offOutcome)
  \/ StartCleaning(TRUE)
  \/ StopCleaning(TRUE)

SpecDashboard == InitDashboard /\ [][NextDashboard]_vars

(***************************************************************************)
(* All backend-facing operations against a store that may reject           *)
(***************************************************************************)
\* device d1, just added with coordinates, and a configured provider, so
\* that every operation can go through; d2 is the key the next push()
\* generates; all calls are made within the same clock reading
InitFailing ==
  /\ now = MaxTime
  /\ db = Set(Provisioned(EmptyStore, "u1", "d1",
                          [NoDeviceInfo EXCEPT !.lat = 12, !.lon = 77], MaxTime),
              WeatherConfigPath,
              K("provider", "openweathermap") @@ K("apiKey", "key")
                @@ K("updateInterval", 1800000))
  /\ selectedDeviceId = "d1"
  /\ deviceListeners = ListenersOf("d1")
  /\ subscriptions = SubscribedOnly("d1")
  /\ localStorage = NoItems
  /\ lastOp = Op("init", "", TRUE, TRUE)

\* one report and one answer of the provider
FailingReport ==
  [environment |-> Some(K("humidity", 40) @@ K("temperature", 44) @@ K("dustPresence", 1)),
   parameters |-> Some([voltage |-> Some(12), current |-> Some(2), power |-> Null])]

FailingResponse == Some([pm2_5 |-> Some(140), pm10 |-> Some(164)])

\* each operation once with the store accepting and once with it rejecting
NextFailing ==
  \E storeOk \in BOOLEAN :
    \/ SendCleaningCommand("d1", 1, "dry", 200, storeOk)
    \/ UpdateSensorData("d1", FailingReport, storeOk)
    \/ UpdateCleaningProgress("d1", 100, 3, storeOk)
    \/ ReportError("d1", "motor stalled", storeOk)
    \/ SetDeviceStatus("d1", FALSE, storeOk)
    \/ \E dataOk \in BOOLEAN : AddDeviceToUser("u1", NoDeviceInfo, storeOk, dataOk)
    \/ \E dataOk \in BOOLEAN : DeleteDevice("u1", "d2", storeOk, dataOk)
    \/ UpdateDeviceData("d1", <<"cleaningControl", "mode">>, Leaf("automatic"), storeOk)
    \/ StopCleaning(storeOk)
    \/ \E readOk \in BOOLEAN : UpdateDustLevel("d1", FailingResponse, readOk, storeOk)

SpecFailing == InitFailing /\ [][NextFailing]_vars

(***************************************************************************)
(* The dashboard's mode, method and PWM controls                           *)
(***************************************************************************)
\* `cleaningControl/pwm${type.charAt(0).toUpperCase() + type.slice(1)}`
PwmPath(type) ==
  <<"cleaningControl", IF type = "dry" THEN "pwmDry" ELSE "pwmWet">>

\* variant: the automatic mode also enables the auto-settings
UpdateCleaningModeEnabling(mode, storeOk) ==
  /\ selectedDeviceId # ""
  /\ BatchUpdateDevice("updateDeviceData", selectedDeviceId,
                       (<<"cleaningControl", "mode">> :> Leaf(mode))
                    @@ (<<"cleaningControl", "autoSettings", "enabled">>
                          :> Leaf(mode = "automatic")),
                       storeOk)

\* updateCleaningMode(mode): if (!selectedDeviceId) return
UpdateCleaningMode(mode, storeOk) ==
  /\ selectedDeviceId # ""
  /\ UpdateDeviceData(selectedDeviceId, <<"cleaningControl", "mode">>, Leaf(mode), storeOk)

\* updateCleaningMethod(method)
UpdateCleaningMethod(method, storeOk) ==
  /\ selectedDeviceId # ""
  /\ UpdateDeviceData(selectedDeviceId, <<"cleaningControl", "method">>, Leaf(method),
                      storeOk)

\* updatePWM(type, value)
UpdatePWM(type, value, storeOk) ==
  /\ selectedDeviceId # ""
  /\ UpdateDeviceData(selectedDeviceId, PwmPath(type), Leaf(value), storeOk)

(***************************************************************************)
(* The sync layer and the dashboard on one provisioned device              *)
(***************************************************************************)
\* the hardware and the open dashboard act on d1 in any order, the weather
\* updates run in between, and the store accepts every call
NextSync ==
  \/ \E trigger \in Triggers : SendCleaningCommand("d1", trigger, "wet", 200, TRUE)
  \/ \E progress \in {99, 100} : UpdateCleaningProgress("d1", progress, 3, TRUE)
  \/ ReportError("d1", "motor stalled", TRUE)
  \/ StartCleaning(TRUE)
  \/ StopCleaning(TRUE)
  \/ UpdateCleaningMode("automatic", TRUE)
  \/ UpdateCleaningMethod("wet", TRUE)
  \/ UpdatePWM("dry", 200, TRUE)
  \/ UpdateSensorData("d1", FailingReport, TRUE)
  \/ UpdateDustLevel("d1", FailingResponse, TRUE, TRUE)

SpecSync == InitFailing /\ [][NextSync]_vars

\* the dashboard and the device working on cleaningControl at the same time:
\* the store applies their updates one at a time, in any order
NextRace ==
  \/ StartCleaning(TRUE)
  \/ StopCleaning(TRUE)
  \/ UpdateCleaningMode("automatic", TRUE)
  \/ UpdateCleaningMethod("wet", TRUE)
  \/ UpdatePWM("dry", 200, TRUE)
  \/ \E progress \in {99, 100} : UpdateCleaningProgress("d1", progress, 3, TRUE)
  \/ ReportError("d1", "motor stalled", TRUE)

SpecRace == InitFailing /\ [][NextRace]_vars

(***************************************************************************)
(* The decision functions applied to stored settings and readings          *)
(***************************************************************************)
\* hours between lastCleaning and the decision, around each schedule period
ElapsedHours ==
  {0, HoursPerDay - 1, HoursPerDay, 7 * HoursPerDay - 1, 7 * HoursPerDay,
   8 * HoursPerDay, 30 * HoursPerDay - 1, 30 * HoursPerDay}

DecisionTime == 31 * HoursPerDay

\* a provisioned device whose auto-settings were edited (updateDeviceData /
\* batchUpdateDevice), whose dust level was updated and whose hardware reported
\* a temperature; lastCleaning is unset or the time of a completed cleaning
InitDecide ==
  /\ now = DecisionTime
  /\ \E enabled \in BOOLEAN, dustThreshold \in DustThresholds,
        scheduleEnabled \in BOOLEAN, schedule \in Schedules,
        lastCleaning \in {Null} \cup {Some(DecisionTime - e) : e \in ElapsedHours},
        dustLevel \in DustLevels, temperature \in Temperatures :
       db = Update(ProvisionedStore(1),
                 (CC("d1", <<"autoSettings", "enabled">>) :> Leaf(enabled))
              @@ (CC("d1", <<"autoSettings", "dustThreshold">>) :> Leaf(dustThreshold))
              @@ (CC("d1", <<"autoSettings", "scheduleEnabled">>) :> Leaf(scheduleEnabled))
              @@ (CC("d1", <<"autoSettings", "schedule">>) :> Leaf(schedule))
              @@ (CC("d1", <<"autoSettings", "lastCleaning">>) :> (<<>> :> lastCleaning))
              @@ (DevicePath("d1", <<"panelStatus", "dustLevel">>) :> Leaf(dustLevel))
              @@ (DevicePath("d1", <<"environment", "temperature">>) :> Leaf(temperature)))
  /\ selectedDeviceId = "d1"
  /\ deviceListeners = ListenersOf("d1")
  /\ subscriptions = SubscribedOnly("d1")
  /\ localStorage = NoItems
  /\ lastOp = Op("init", "", TRUE, TRUE)

\* a failed read is caught and answered with the default
CallShouldTriggerAutoCleaning(deviceId) ==
  \E readOk \in BOOLEAN :
    /\ lastOp' = Op("shouldTriggerAutoCleaning", deviceId, readOk,
                    IF readOk THEN ShouldTriggerAutoCleaning(db, deviceId, now)
                    ELSE FALSE)
    /\ UNCHANGED <<db, now, selectedDeviceId, deviceListeners, subscriptions,
                   localStorage>>

CallSelectCleaningMethod(deviceId) ==
  \E readOk \in BOOLEAN :
    /\ lastOp' = Op("selectCleaningMethod", deviceId, readOk,
                    IF readOk THEN SelectCleaningMethod(db, deviceId) ELSE "dry")
    /\ UNCHANGED <<db, now, selectedDeviceId, deviceListeners, subscriptions,
                   localStorage>>

NextDecide ==
  \/ \E deviceId \in ActiveIds : CallShouldTriggerAutoCleaning(deviceId)
  \/ \E deviceId \in ActiveIds : CallSelectCleaningMethod(deviceId)

SpecDecide == InitDecide /\ [][NextDecide]_vars

\* the auto-cleaning rule consulted between the operations of the dashboard
\* and of the sync layer on a provisioned device
NextAuto ==
  \/ NextSync
  \/ CallShouldTriggerAutoCleaning("d1")

SpecAuto == InitFailing /\ [][NextAuto]_vars

\* a located device whose owner enabled auto-cleaning (updateDeviceData on
\* autoSettings/enabled) and whose dust level stands at or above the threshold
InitDusty ==
  /\ now = MaxTime
  /\ \E dustLevel \in {100, 152} :
       db = Update(Set(Provisioned(EmptyStore, "u1", "d1",
                                   [NoDeviceInfo EXCEPT !.lat = 12, !.lon = 77], MaxTime),
                       WeatherConfigPath,
                       K("provider", "openweathermap") @@ K("apiKey", "key")
                         @@ K("updateInterval", 1800000)),
                      (CC("d1", <<"autoSettings", "enabled">>) :> Leaf(TRUE))
                   @@ (DevicePath("d1", <<"panelStatus", "dustLevel">>) :> Leaf(dustLevel)))
  /\ selectedDeviceId = "d1"
  /\ deviceListeners = ListenersOf("d1")
  /\ subscriptions = SubscribedOnly("d1")
  /\ localStorage = NoItems
  /\ lastOp = Op("init", "", TRUE, TRUE)

\* air-quality responses averaging 50, 100 and 152
DustyResponses ==
  {Some([pm2_5 |-> Some(40), pm10 |-> Some(60)]),
   Some([pm2_5 |-> Some(90), pm10 |-> Some(110)]),
   FailingResponse}

\* cleanings run and complete while the weather service reports dust levels
\* and the auto-cleaning rule is consulted
NextDusty ==
  \/ \E trigger \in Triggers : SendCleaningCommand("d1", trigger, "wet", 200, TRUE)
  \/ \E progress \in {99, 100} : UpdateCleaningProgress("d1", progress, 3, TRUE)
  \/ ReportError("d1", "motor stalled", TRUE)
  \/ \E response \in DustyResponses : UpdateDustLevel("d1", response, TRUE, TRUE)
  \/ CallShouldTriggerAutoCleaning("d1")

SpecDusty == InitDusty /\ [][NextDusty]_vars

(***************************************************************************)
(* Browser storage: entries with an expiration                             *)
(***************************************************************************)
\* expirationMinutes * 60 * 1000
MsPerMinute == 60 * 1000

\* Date.now() readings in milliseconds, at and just after each whole minute
CacheTimes == {m * MsPerMinute + d : m \in 0..MaxTime, d \in {0, 1}}

\* a later Date.now() reading within one call
CacheClockAfter(t) == {t2 \in CacheTimes : t2 = t \/ t2 = t + 1}

\* JavaScript values: null, undefined and numbers
JsNull == [kind |-> "null", v |-> 0]

JsUndefined == [kind |-> "undefined", v |-> 0]

JsNumber(n) == [kind |-> "number", v |-> n]

\* what is cached: a value, or nothing (undefined)
CachedDatas == {JsNumber(7), JsUndefined}

ExpirationMinutes == {0, 1}

\* ttl arguments in milliseconds: 0 is refused
Ttls == {0, MsPerMinute}

\* the defaultValue argument of getWithExpiry: left out (null) or given
DefaultValues == {JsNull, JsNumber(0)}

\* STORAGE_KEYS.CACHED_DATA + '_' + key
CacheKey(key) == "urza_cached_data_" \o key

\* JSON.parse(JSON.stringify(object)): a key whose value is undefined is
\* dropped
Serialized(object) ==
  [k \in {f \in DOMAIN object : object[f] # JsUndefined} |-> object[k]]

\* object.field of a parsed object: undefined when the key is absent
Property(object, field) ==
  IF field \in DOMAIN object THEN object[field] ELSE JsUndefined

\* localStorage.setItem(key, JSON.stringify(value)), which may throw (quota)
SavedToLocal(storage, key, value, storeOk) ==
  IF storeOk THEN (key :> Serialized(value)) @@ storage ELSE storage

\* localStorage.removeItem(key)
RemovedFromLocal(storage, key) == [k \in DOMAIN storage \ {key} |-> storage[k]]

\* variant: an entry expires at its expiration time, not after it
ExpiredAtExpiration(t, expiration) ==
  expiration.kind = "number" /\ t >= expiration.v

\* Date.now() > expiration (false when expiration is not a number)
Expired(t, expiration) ==
  expiration.kind = "number" /\ t > expiration.v

\* the entry saveCachedData builds from its two Date.now() readings
CacheEntry(data, t1, t2, expirationMinutes) ==
  [data |-> data, timestamp |-> JsNumber(t1),
   expiration |-> JsNumber(t2 + expirationMinutes * MsPerMinute)]

InitCache ==
  /\ now = 0
  /\ db = EmptyStore
  /\ selectedDeviceId = ""
  /\ deviceListeners = NoListeners
  /\ subscriptions = NoSubscriptions
  /\ localStorage = NoItems
  /\ lastOp = Op("init", "", TRUE, TRUE)

CacheTick ==
  /\ \E t \in CacheTimes : t > now /\ now' = t
  /\ lastOp' = Op("tick", "", TRUE, TRUE)
  /\ UNCHANGED <<db, selectedDeviceId, deviceListeners, subscriptions, localStorage>>

\* saveCachedData(key, data, expirationMinutes)
SaveCachedData(key, data, expirationMinutes, storeOk) ==
  \E t2 \in CacheClockAfter(now) :
    /\ localStorage' = SavedToLocal(localStorage, CacheKey(key),
                                    CacheEntry(data, now, t2, expirationMinutes),
                                    storeOk)
    /\ now' = t2
    /\ lastOp' = Op("saveCachedData", key, storeOk, storeOk)
                    @@ [data |-> data, expirationMinutes |-> expirationMinutes]
    /\ UNCHANGED <<db, selectedDeviceId, deviceListeners, subscriptions>>

\* getCachedData(key)
GetCachedData(key) ==
  LET cacheKey == CacheKey(key)
      found == cacheKey \in DOMAIN localStorage
      expired == found /\ Expired(now, Property(localStorage[cacheKey], "expiration"))
  IN  /\ localStorage' = IF expired
                         THEN RemovedFromLocal(localStorage, cacheKey)
                         ELSE localStorage
      /\ lastOp' = Op("getCachedData", key, TRUE,
                      IF ~found \/ expired
                      THEN JsNull
                      ELSE Property(localStorage[cacheKey], "data"))
      /\ UNCHANGED <<db, now, selectedDeviceId, deviceListeners, subscriptions>>

\* StorageUtil.setWithExpiry(key, value, ttl)
SetWithExpiry(key, value, ttl, storeOk) ==
  LET accepted == ttl > 0
  IN  /\ localStorage' = IF accepted
                         THEN SavedToLocal(localStorage, key,
                                           [value |-> value, expiry |-> JsNumber(now + ttl)],
                                           storeOk)
                         ELSE localStorage
      /\ lastOp' = Op("setWithExpiry", key, storeOk, accepted /\ storeOk)
                      @@ [value |-> value, ttl |-> ttl]
      /\ UNCHANGED <<db, now, selectedDeviceId, deviceListeners, subscriptions>>

\* StorageUtil.getWithExpiry(key, defaultValue)
GetWithExpiry(key, defaultValue) ==
  LET found == key \in DOMAIN localStorage
      expiry == IF found THEN Property(localStorage[key], "expiry") ELSE JsUndefined
      expired == found /\ Expired(now, expiry)
  IN  /\ localStorage' = IF expired
                         THEN RemovedFromLocal(localStorage, key)
                         ELSE localStorage
      /\ lastOp' = Op("getWithExpiry", key, TRUE,
                      IF ~found \/ expiry.kind # "number" \/ expired
                      THEN defaultValue
                      ELSE Property(localStorage[key], "value"))
                      @@ [defaultValue |-> defaultValue]
      /\ UNCHANGED <<db, now, selectedDeviceId, deviceListeners, subscriptions>>

NextCache ==
  \/ CacheTick
  \/ \E data \in CachedDatas, expirationMinutes \in ExpirationMinutes, storeOk \in BOOLEAN :
       SaveCachedData("forecast", data, expirationMinutes, storeOk)
  \/ GetCachedData("forecast")
  \/ \E value \in CachedDatas, ttl \in Ttls, storeOk \in BOOLEAN :
       SetWithExpiry("token", value, ttl, storeOk)
  \/ \E defaultValue \in DefaultValues : GetWithExpiry("token", defaultValue)

SpecCache == InitCache /\ [][NextCache]_vars

\* the telemetry subtrees the decision functions read
DecisionSubtrees ==
  {<<"cleaningControl", "autoSettings">>, <<"panelStatus">>, <<"environment">>}

\* lastCleaning of a device whose daily schedule is overdue
OverdueCleaning == DecisionTime - 8 * HoursPerDay

\* a provisioned device with edited auto-settings from which some subtrees
\* were removed (updateDeviceData(deviceId, path, null)), or a device that
\* has no state at all (deleteDevice)
InitMissing ==
  /\ now = DecisionTime
  /\ \E enabled \in BOOLEAN, scheduleEnabled \in BOOLEAN,
        lastCleaning \in {Null, Some(OverdueCleaning)},
        dustLevel \in {0, 101}, temperature \in {44, 46},
        removed \in SUBSET DecisionSubtrees, deleted \in BOOLEAN :
       LET edited ==
             Update(ProvisionedStore(1),
                 (CC("d1", <<"autoSettings", "enabled">>) :> Leaf(enabled))
              @@ (CC("d1", <<"autoSettings", "scheduleEnabled">>) :> Leaf(scheduleEnabled))
              @@ (CC("d1", <<"autoSettings", "lastCleaning">>) :> (<<>> :> lastCleaning))
              @@ (DevicePath("d1", <<"panelStatus", "dustLevel">>) :> Leaf(dustLevel))
              @@ (DevicePath("d1", <<"environment", "temperature">>) :> Leaf(temperature)))
           pruned ==
             Update(edited, [path \in {DevicePath("d1", r) : r \in removed}
                               |-> (<<>> :> Null)])
       IN  db = IF deleted
                THEN Set(Set(pruned, <<"users", "u1", "devices", "d1">>, (<<>> :> Null)),
                         DevicePath("d1", <<>>), (<<>> :> Null))
                ELSE pruned
  /\ selectedDeviceId = "d1"
  /\ deviceListeners = ListenersOf("d1")
  /\ subscriptions = SubscribedOnly("d1")
  /\ localStorage = NoItems
  /\ lastOp = Op("init", "", TRUE, TRUE)

SpecMissing == InitMissing /\ [][NextDecide]_vars

(***************************************************************************)
(* Properties of the control operations                                    *)
(***************************************************************************)
\* the leaves of the store below a path
Subtree(store, path) ==
  [p \in {q \in DOMAIN store : IsPrefix(path, q)} |-> store[p]]

\* a stored field, or Null when it is absent
Field(store, path) == IF path \in DOMAIN store THEN Some(store[path]) ELSE Null

\* C1: a successful updateCleaningProgress(deviceId, progress, waterUsed)
\* records progress and waterUsed under currentOperation; when progress >= 100
\* it sets status to 'completed', trigger to 0 and autoSettings.lastCleaning to
\* the update time, and when progress < 100 it leaves status, trigger and
\* autoSettings.lastCleaning as they were.
C1_ProgressUpdate ==
  [][\A deviceId \in ActiveIds, progress \in Progresses, waterUsed \in WaterAmounts :
       ( /\ lastOp'.name = "updateCleaningProgress"
         /\ lastOp'.storeOk
         /\ UpdateCleaningProgress(deviceId, progress, waterUsed, TRUE) )
       => /\ Field(db', CC(deviceId, <<"currentOperation", "progress">>)) = Some(progress)
          /\ Field(db', CC(deviceId, <<"currentOperation", "waterUsed">>)) = Some(waterUsed)
          /\ IF progress >= 100
             THEN /\ Field(db', CC(deviceId, <<"status">>)) = Some("completed")
                  /\ Field(db', CC(deviceId, <<"trigger">>)) = Some(0)
                  /\ Field(db', CC(deviceId, <<"autoSettings", "lastCleaning">>)) = Some(now)
             ELSE /\ Field(db', CC(deviceId, <<"status">>)) = Field(db, CC(deviceId, <<"status">>))
                  /\ Field(db', CC(deviceId, <<"trigger">>)) = Field(db, CC(deviceId, <<"trigger">>))
                  /\ Field(db', CC(deviceId, <<"autoSettings", "lastCleaning">>))
                       = Field(db, CC(deviceId, <<"autoSettings", "lastCleaning">>))
    ]_vars

\* a progress update of exactly 100, made after provisioning time, completed
\* the cleaning
C1_Witness ==
  /\ lastOp.name = "updateCleaningProgress"
  /\ lastOp.storeOk
  /\ now > 1
  /\ Field(db, CC("d1", <<"currentOperation", "progress">>)) = Some(100)
  /\ Field(db, CC("d1", <<"status">>)) = Some("completed")
  /\ Field(db, CC("d1", <<"trigger">>)) = Some(0)
  /\ Field(db, CC("d1", <<"autoSettings", "lastCleaning">>)) = Some(now)

\* C2: a successful sendCleaningCommand(deviceId, 1, method, pwm) on an idle
\* device sets status 'cleaning' and trigger 1, sets currentOperation.startTime
\* to the time of the command, zeroes progress and waterUsed, records the
\* method, and writes pwm to the PWM field of that method only.
C2_StartCommand ==
  [][\A deviceId \in ActiveIds, method \in Methods, pwm \in Pwms :
       ( /\ lastOp'.name = "sendCleaningCommand"
         /\ lastOp'.storeOk
         /\ Field(db, CC(deviceId, <<"status">>)) = Some("idle")
         /\ SendCleaningCommand(deviceId, 1, method, pwm, TRUE) )
       => /\ Field(db', CC(deviceId, <<"status">>)) = Some("cleaning")
          /\ Field(db', CC(deviceId, <<"trigger">>)) = Some(1)
          /\ Field(db', CC(deviceId, <<"currentOperation", "startTime">>)) = Some(now')
          /\ now <= now'
          /\ Field(db', CC(deviceId, <<"currentOperation", "progress">>)) = Some(0)
          /\ Field(db', CC(deviceId, <<"currentOperation", "waterUsed">>)) = Some(0)
          /\ Field(db', CC(deviceId, <<"method">>)) = Some(method)
          /\ method = "dry" =>
               /\ Field(db', CC(deviceId, <<"pwmDry">>)) = Some(pwm)
               /\ Field(db', CC(deviceId, <<"pwmWet">>)) = Field(db, CC(deviceId, <<"pwmWet">>))
          /\ method = "wet" =>
               /\ Field(db', CC(deviceId, <<"pwmWet">>)) = Some(pwm)
               /\ Field(db', CC(deviceId, <<"pwmDry">>)) = Field(db, CC(deviceId, <<"pwmDry">>))
    ]_vars

\* a wet start command went through: the wet PWM is the commanded one and the
\* dry PWM still has its provisioning default
C2_Witness ==
  /\ lastOp.name = "sendCleaningCommand"
  /\ lastOp.storeOk
  /\ Field(db, CC("d1", <<"status">>)) = Some("cleaning")
  /\ Field(db, CC("d1", <<"trigger">>)) = Some(1)
  /\ Field(db, CC("d1", <<"method">>)) = Some("wet")
  /\ Field(db, CC("d1", <<"pwmWet">>)) = Some(200)
  /\ Field(db, CC("d1", <<"pwmDry">>)) = Some(150)
  /\ Field(db, CC("d1", <<"currentOperation", "startTime">>)) = Some(now)
  /\ Field(db, CC("d1", <<"currentOperation", "progress">>)) = Some(0)

\* C3: a successful reportError(deviceId, message), whatever the status
\* before it, leaves status 'error' and trigger 0 and stores the message with
\* the time of the report in cleaningControl.lastError.
C3_ReportError ==
  [][\A deviceId \in ActiveIds, errorMessage \in ErrorMessages :
       ( /\ lastOp'.name = "reportError"
         /\ lastOp'.storeOk
         /\ ReportError(deviceId, errorMessage, TRUE) )
       => /\ Field(db', CC(deviceId, <<"status">>)) = Some("error")
          /\ Field(db', CC(deviceId, <<"trigger">>)) = Some(0)
          /\ Subtree(db', CC(deviceId, <<"lastError">>))
               = (CC(deviceId, <<"lastError", "message">>) :> errorMessage)
              @@ (CC(deviceId, <<"lastError", "timestamp">>) :> now)
    ]_vars

\* an error was reported while a started operation was under way
C3_Witness ==
  /\ lastOp.name = "reportError"
  /\ lastOp.storeOk
  /\ Field(db, CC("d1", <<"status">>)) = Some("error")
  /\ Field(db, CC("d1", <<"trigger">>)) = Some(0)
  /\ Field(db, CC("d1", <<"lastError", "message">>)) = Some("motor stalled")
  /\ Field(db, CC("d1", <<"lastError", "timestamp">>)) = Some(now)
  /\ Field(db, CC("d1", <<"currentOperation", "startTime">>)) # Null

\* C4: a successful stop (sendCleaningCommand with trigger 0, or the
\* dashboard's stopCleaning) issued in status 'cleaning' or 'idle' leaves
\* status 'idle' and trigger 0 and changes neither currentOperation nor
\* autoSettings.lastCleaning.
C4_StopCommand ==
  [][\A deviceId \in ActiveIds :
       ( /\ lastOp'.name \in {"sendCleaningCommand", "stopCleaning"}
         /\ lastOp'.storeOk
         /\ Field(db, CC(deviceId, <<"status">>)) \in {Some("cleaning"), Some("idle")}
         /\ \/ selectedDeviceId = deviceId /\ StopCleaning(TRUE)
            \/ \E method \in Methods, pwm \in Pwms :
                 SendCleaningCommand(deviceId, 0, method, pwm, TRUE) )
       => /\ Field(db', CC(deviceId, <<"status">>)) = Some("idle")
          /\ Field(db', CC(deviceId, <<"trigger">>)) = Some(0)
          /\ Subtree(db', CC(deviceId, <<"currentOperation">>))
               = Subtree(db, CC(deviceId, <<"currentOperation">>))
          /\ Field(db', CC(deviceId, <<"autoSettings", "lastCleaning">>))
               = Field(db, CC(deviceId, <<"autoSettings", "lastCleaning">>))
    ]_vars

\* a stop command ended an operation that had reported progress: the device is
\* idle and the operation's progress and start time are still stored
C4_Witness ==
  /\ lastOp.name \in {"sendCleaningCommand", "stopCleaning"}
  /\ lastOp.storeOk
  /\ Field(db, CC("d1", <<"status">>)) = Some("idle")
  /\ Field(db, CC("d1", <<"trigger">>)) = Some(0)
  /\ Field(db, CC("d1", <<"currentOperation", "progress">>)) = Some(99)
  /\ Field(db, CC("d1", <<"currentOperation", "startTime">>)) # Null

(***************************************************************************)
(* Properties of the decision functions                                    *)
(***************************************************************************)
Enabled1 == Field(db, CC("d1", <<"autoSettings", "enabled">>)) = Some(TRUE)

ScheduleEnabled1 == Field(db, CC("d1", <<"autoSettings", "scheduleEnabled">>)) = Some(TRUE)

Schedule1 == db[CC("d1", <<"autoSettings", "schedule">>)]

DustLevel1 == db[DevicePath("d1", <<"panelStatus", "dustLevel">>)]

DustThreshold1 == db[CC("d1", <<"autoSettings", "dustThreshold">>)]

Temperature1 == db[DevicePath("d1", <<"environment", "temperature">>)]

LastCleaningSet1 == Field(db, CC("d1", <<"autoSettings", "lastCleaning">>)) # Null

\* hours since lastCleaning (when it is set)
Elapsed1 == now - db[CC("d1", <<"autoSettings", "lastCleaning">>)]

\* the schedule period in hours: 1, 7 and 30 days
PeriodHours1 ==
  IF Schedule1 = "daily" THEN 24 ELSE IF Schedule1 = "weekly" THEN 7 * 24 ELSE 30 * 24

Asked(name) == lastOp.name = name /\ lastOp.deviceId = "d1" /\ lastOp.storeOk

\* C5: shouldTriggerAutoCleaning returns false whenever autoSettings.enabled
\* is false, whatever the dust level, threshold, schedule settings and
\* lastCleaning are.
C5_DisabledNeverTriggers ==
  (lastOp.name = "shouldTriggerAutoCleaning" /\ ~Enabled1) => lastOp.result = FALSE

\* asked with auto-cleaning disabled although the dust level is over the
\* threshold and a weekly schedule is overdue
C5_Witness ==
  /\ Asked("shouldTriggerAutoCleaning")
  /\ ~Enabled1
  /\ DustLevel1 > DustThreshold1
  /\ ScheduleEnabled1 /\ Schedule1 = "weekly" /\ LastCleaningSet1
  /\ Elapsed1 = 8 * 24
  /\ lastOp.result = FALSE

\* C6: with autoSettings.enabled true, shouldTriggerAutoCleaning returns true
\* whenever dustLevel >= dustThreshold, equality included, whatever the
\* schedule settings and lastCleaning are.
C6_ThresholdTriggers ==
  (Asked("shouldTriggerAutoCleaning") /\ Enabled1 /\ DustLevel1 >= DustThreshold1)
    => lastOp.result = TRUE

\* asked with the dust level exactly at the threshold, no schedule and no
\* earlier cleaning
C6_Witness ==
  /\ Asked("shouldTriggerAutoCleaning")
  /\ Enabled1
  /\ DustLevel1 = DustThreshold1
  /\ ~ScheduleEnabled1 /\ ~LastCleaningSet1
  /\ lastOp.result = TRUE

\* C7: with enabled and scheduleEnabled true and the dust level below the
\* threshold, shouldTriggerAutoCleaning returns true exactly when lastCleaning
\* is set and at least 1 day (daily), 7 days (weekly) or 30 days (monthly)
\* have passed since; with lastCleaning unset it returns false.
C7_ScheduleTriggers ==
  ( /\ Asked("shouldTriggerAutoCleaning")
    /\ Enabled1 /\ ScheduleEnabled1
    /\ DustLevel1 < DustThreshold1 )
    => lastOp.result = (LastCleaningSet1 /\ Elapsed1 >= PeriodHours1)

\* weekly schedule, last cleaning 8 days ago, dust below the threshold
C7_Witness ==
  /\ Asked("shouldTriggerAutoCleaning")
  /\ Enabled1 /\ ScheduleEnabled1 /\ Schedule1 = "weekly"
  /\ DustLevel1 < DustThreshold1
  /\ LastCleaningSet1 /\ Elapsed1 = 8 * 24
  /\ lastOp.result = TRUE

\* C8 as stated: with enabled true, the dust level below the threshold and
\* lastCleaning set, shouldTriggerAutoCleaning returns true once the schedule
\* period has elapsed, for every value of the other auto-settings fields.
C8_AsStated ==
  ( /\ Asked("shouldTriggerAutoCleaning")
    /\ Enabled1
    /\ DustLevel1 < DustThreshold1
    /\ LastCleaningSet1 /\ Elapsed1 >= PeriodHours1 )
    => lastOp.result = TRUE

\* C8 amended: under the same conditions shouldTriggerAutoCleaning returns
\* true when autoSettings.scheduleEnabled is true and false when it is false:
\* the schedule rule is conditioned on enabled, scheduleEnabled, schedule and
\* lastCleaning.
C8_ScheduleNeedsFlag ==
  ( /\ Asked("shouldTriggerAutoCleaning")
    /\ Enabled1
    /\ DustLevel1 < DustThreshold1
    /\ LastCleaningSet1 /\ Elapsed1 >= PeriodHours1 )
    => lastOp.result = ScheduleEnabled1

\* monthly period elapsed exactly, dust below the threshold, but the schedule
\* is switched off: no cleaning
C8_Witness ==
  /\ Asked("shouldTriggerAutoCleaning")
  /\ Enabled1 /\ ~ScheduleEnabled1 /\ Schedule1 = "monthly"
  /\ DustLevel1 < DustThreshold1
  /\ LastCleaningSet1 /\ Elapsed1 = 30 * 24
  /\ lastOp.result = FALSE

\* C9: when the panelStatus and environment snapshots exist,
\* selectCleaningMethod returns 'wet' exactly when dustLevel > 100 and
\* temperature is not above 45, and 'dry' otherwise.
C9_MethodSelection ==
  Asked("selectCleaningMethod")
    => lastOp.result = IF DustLevel1 > 100 /\ ~(Temperature1 > 45) THEN "wet" ELSE "dry"

\* a dust level of exactly 100 at a mild temperature gives dry
C9_Witness ==
  /\ Asked("selectCleaningMethod")
  /\ DustLevel1 = 100
  /\ Temperature1 = 44
  /\ lastOp.result = "dry"

\* C10 as stated: selectCleaningMethod returns 'dry' when temperature is
\* exactly 45 and dustLevel > 100.
C10_AsStated ==
  (Asked("selectCleaningMethod") /\ Temperature1 = 45 /\ DustLevel1 > 100)
    => lastOp.result = "dry"

\* C10 amended: selectCleaningMethod returns 'wet' when temperature is exactly
\* 45 and dustLevel > 100; only a temperature above 45 falls back to 'dry'.
C10_BoundaryIsWet ==
  (Asked("selectCleaningMethod") /\ DustLevel1 > 100)
    => /\ Temperature1 = 45 => lastOp.result = "wet"
       /\ Temperature1 > 45 => lastOp.result = "dry"

\* heavy dust at exactly 45 degrees
C10_Witness ==
  /\ Asked("selectCleaningMethod")
  /\ Temperature1 = 45
  /\ DustLevel1 = 101
  /\ lastOp.result = "wet"

(***************************************************************************)
(* Properties of the decision functions on missing data and failed reads   *)
(***************************************************************************)
\* C11: the decision functions answer with their safe default and never
\* throw: shouldTriggerAutoCleaning returns false when a read fails or when
\* autoSettings or panelStatus is absent; selectCleaningMethod returns 'dry'
\* when a read fails or when panelStatus or environment is absent.
C11_SafeDefaults ==
  /\ ( /\ lastOp.name = "shouldTriggerAutoCleaning"
       /\ \/ ~lastOp.storeOk
          \/ ~Exists(db, CC(lastOp.deviceId, <<"autoSettings">>))
          \/ ~Exists(db, DevicePath(lastOp.deviceId, <<"panelStatus">>)) )
     => lastOp.result = FALSE
  /\ ( /\ lastOp.name = "selectCleaningMethod"
       /\ \/ ~lastOp.storeOk
          \/ ~Exists(db, DevicePath(lastOp.deviceId, <<"panelStatus">>))
          \/ ~Exists(db, DevicePath(lastOp.deviceId, <<"environment">>)) )
     => lastOp.result = "dry"

\* the method was asked for a device with heavy dust whose environment
\* subtree is absent, the reads went through, and the answer was 'dry'
C11_Witness ==
  /\ lastOp.name = "selectCleaningMethod"
  /\ lastOp.storeOk
  /\ HeavyDust(db, "d1")
  /\ ~Exists(db, DevicePath("d1", <<"environment">>))
  /\ lastOp.result = "dry"

(***************************************************************************)
(* Properties of telemetry ingestion                                       *)
(***************************************************************************)
\* the report of the last updateSensorData call
Ingested ==
  /\ lastOp.name = "updateSensorData"
  /\ lastOp.storeOk

C13_AsStated ==
  ( /\ Ingested
    /\ lastOp.sensorData.parameters # Null
    /\ lastOp.sensorData.parameters[1].power # Null )
  => Field(db, DevicePath(lastOp.deviceId, <<"panelParameters", "power">>))
       = lastOp.sensorData.parameters[1].power

\* C14: every successful updateSensorData, whatever its payload (environment
\* only, parameters only, both, neither), sets info.status to 'online' and
\* info.lastUpdated to the ingestion time, and stamps that same time as the
\* timestamp of each telemetry subtree it writes, replacing any timestamp in
\* the report; a subtree absent from the payload is left unchanged.
C14_StampsAndOnline ==
  [][( /\ lastOp'.name = "updateSensorData"
       /\ lastOp'.storeOk )
     => LET deviceId == lastOp'.deviceId
            sensorData == lastOp'.sensorData
            environment == DevicePath(deviceId, <<"environment">>)
            panelParameters == DevicePath(deviceId, <<"panelParameters">>)
        IN  /\ Field(db', DevicePath(deviceId, <<"info", "status">>)) = Some("online")
            /\ Field(db', DevicePath(deviceId, <<"info", "lastUpdated">>)) = Some(now)
            /\ IF sensorData.environment # Null
               THEN Field(db', environment \o <<"timestamp">>) = Some(now)
               ELSE Subtree(db', environment) = Subtree(db, environment)
            /\ IF sensorData.parameters # Null
               THEN Field(db', panelParameters \o <<"timestamp">>) = Some(now)
               ELSE Subtree(db', panelParameters) = Subtree(db, panelParameters)
    ]_vars

\* after provisioning time, an environment-only report carrying the device's
\* own timestamp was ingested: the environment subtree bears the ingestion
\* time and panelParameters still bears the provisioning time
C14_Witness ==
  /\ Ingested
  /\ now > 1
  /\ lastOp.sensorData.environment # Null
  /\ <<"timestamp">> \in DOMAIN lastOp.sensorData.environment[1]
  /\ lastOp.sensorData.parameters = Null
  /\ Field(db, DevicePath("d1", <<"environment", "timestamp">>)) = Some(now)
  /\ Field(db, DevicePath("d1", <<"panelParameters", "timestamp">>)) = Some(1)
  /\ Field(db, DevicePath("d1", <<"info", "lastUpdated">>)) = Some(now)

(***************************************************************************)
(* Properties of the dust-level updates                                    *)
(***************************************************************************)
\* the last updateDustLevel call wrote the dust data of a provider's answer
DustWritten ==
  /\ lastOp.name = "updateDustLevel"
  /\ lastOp.result

Pm2_5 == OrZero(lastOp.response[1].pm2_5)

Pm10 == OrZero(lastOp.response[1].pm10)

StoredDustLevel == Field(db, DevicePath(lastOp.deviceId, <<"panelStatus", "dustLevel">>))

StoredDustCategory ==
  Field(db, DevicePath(lastOp.deviceId, <<"panelStatus", "dustCategory">>))

C19_AbortsWithoutWriting ==
  [][( /\ lastOp'.name = "updateDustLevel"
       /\ \/ lastOp'.response = Null
          \/ ~LocationSet(db, lastOp'.deviceId)
          \/ WeatherConfig(db).apiKey = "" )
     => LET panelStatus == DevicePath(lastOp'.deviceId, <<"panelStatus">>)
        IN  /\ lastOp'.result = FALSE
            /\ Field(db', panelStatus \o <<"dustLevel">>)
                 = Field(db, panelStatus \o <<"dustLevel">>)
            /\ Field(db', panelStatus \o <<"dustCategory">>)
                 = Field(db, panelStatus \o <<"dustCategory">>)
            /\ Field(db', panelStatus \o <<"lastUpdated">>)
                 = Field(db, panelStatus \o <<"lastUpdated">>)
            /\ lastOp'.fetches <= 1
    ]_vars

\* after an earlier update had stored a high dust level, a later call whose
\* request to the provider failed returned success = false and left the
\* stored level, category and time as they were
C19_Witness ==
  /\ lastOp.name = "updateDustLevel"
  /\ lastOp.deviceId = "d1"
  /\ lastOp.storeOk
  /\ lastOp.response = Null
  /\ lastOp.fetches = 1
  /\ lastOp.result = FALSE
  /\ Field(db, DevicePath("d1", <<"panelStatus", "dustLevel">>)) = Some(152)
  /\ Field(db, DevicePath("d1", <<"panelStatus", "dustCategory">>)) = Some("high")
  /\ Field(db, DevicePath("d1", <<"panelStatus", "lastUpdated">>)) = Some(1)
  /\ now > 1

(***************************************************************************)
(* Properties of provisioning and deletion                                 *)
(***************************************************************************)
\* the readings and settings of a device that was just added, by their path
\* below devices/{deviceId}
DefaultTree ==
     (<<"environment", "humidity">> :> 0)
  @@ (<<"environment", "temperature">> :> 0)
  @@ (<<"environment", "dustPresence">> :> 0)
  @@ (<<"panelParameters", "voltage">> :> 0)
  @@ (<<"panelParameters", "current">> :> 0)
  @@ (<<"panelParameters", "power">> :> 0)
  @@ (<<"panelStatus", "dustLevel">> :> 0)
  @@ (<<"panelStatus", "dustCategory">> :> "light")
  @@ (<<"panelStatus", "currentEfficiency">> :> 0)
  @@ (<<"panelStatus", "dailyLoss", "kwh">> :> 0)
  @@ (<<"panelStatus", "dailyLoss", "percentage">> :> 0)
  @@ (<<"panelStatus", "dailyLoss", "currency">> :> 0)
  @@ (<<"panelStatus", "weeklyLoss", "kwh">> :> 0)
  @@ (<<"panelStatus", "weeklyLoss", "avgPercentage">> :> 0)
  @@ (<<"panelStatus", "monthlyLoss", "kwh">> :> 0)
  @@ (<<"panelStatus", "monthlyLoss", "avgPercentage">> :> 0)
  @@ (<<"cleaningControl", "mode">> :> "manual")
  @@ (<<"cleaningControl", "method">> :> "dry")
  @@ (<<"cleaningControl", "status">> :> "idle")
  @@ (<<"cleaningControl", "pwmDry">> :> 150)
  @@ (<<"cleaningControl", "pwmWet">> :> 180)
  @@ (<<"cleaningControl", "trigger">> :> 0)
  @@ (<<"cleaningControl", "autoSettings", "enabled">> :> FALSE)
  @@ (<<"cleaningControl", "autoSettings", "dustThreshold">> :> 100)
  @@ (<<"cleaningControl", "autoSettings", "scheduleEnabled">> :> FALSE)
  @@ (<<"cleaningControl", "autoSettings", "schedule">> :> "daily")
  @@ (<<"cleaningControl", "currentOperation", "progress">> :> 0)
  @@ (<<"cleaningControl", "currentOperation", "waterUsed">> :> 0)

\* the creation times a new device carries
CreationStamps ==
  {<<"environment", "timestamp">>, <<"panelParameters", "timestamp">>,
   <<"panelStatus", "lastUpdated">>, <<"cleaningControl", "lastUpdated">>}

\* the paths that have a value below devices/{deviceId}, outside info
StatePaths(store, deviceId) ==
  {SubSeq(p, 3, Len(p)) :
     p \in {q \in DOMAIN store : /\ IsPrefix(DevicePath(deviceId, <<>>), q)
                                 /\ ~IsPrefix(DevicePath(deviceId, <<"info">>), q)}}

\* C16: a device provisioned with addDeviceToUser and read back before any
\* other operation has exactly the fixed default tree (environment and
\* panelParameters readings 0; panelStatus dustLevel 0, category 'light' and
\* all loss aggregates 0; cleaningControl mode manual, method dry, status
\* idle, pwmDry 150, pwmWet 180, trigger 0, autoSettings disabled with
\* lastCleaning unset, currentOperation progress 0 and waterUsed 0), and the
\* returned identifier is listed under the owner's devices.
C16_DefaultTree ==
  ( /\ lastOp.name = "addDeviceToUser"
    /\ lastOp.result )
  => /\ \A p \in DOMAIN DefaultTree :
          Field(db, DevicePath(lastOp.deviceId, p)) = Some(DefaultTree[p])
     /\ StatePaths(db, lastOp.deviceId) = DOMAIN DefaultTree \cup CreationStamps
     /\ \A p \in CreationStamps : db[DevicePath(lastOp.deviceId, p)] = now
     /\ Field(db, DevicePath(lastOp.deviceId, <<"info", "ownerId">>)) = Some(lastOp.userId)
     /\ Field(db, <<"users", lastOp.userId, "devices", lastOp.deviceId>>) = Some(TRUE)

\* user u2 added a second device after u1 had changed the first one
C16_Witness ==
  /\ lastOp.name = "addDeviceToUser"
  /\ lastOp.result
  /\ lastOp.userId = "u2"
  /\ \E d \in DeviceKeys \ {lastOp.deviceId} :
       Field(db, CC(d, <<"mode">>)) = Some("automatic")
  /\ Field(db, CC(lastOp.deviceId, <<"mode">>)) = Some("manual")
  /\ Field(db, CC(lastOp.deviceId, <<"autoSettings", "lastCleaning">>)) = Null
  /\ Field(db, <<"users", "u2", "devices", lastOp.deviceId>>) = Some(TRUE)

\* C17: when a store write fails during provisioning, addDeviceToUser
\* returns a failed result and rolls nothing back: the owner's reference is
\* written before the device subtree, so when the subtree write fails after
\* the reference write went through, the owner's device list keeps a
\* reference to a device that has no state subtree.
C17_NoRollback ==
  [][( /\ lastOp'.name = "addDeviceToUser"
       /\ ~lastOp'.storeOk )
     => LET reference == <<"users", lastOp'.userId, "devices", lastOp'.deviceId>>
        IN  /\ lastOp'.result = FALSE
            /\ lastOp'.writes = 0 => db' = db
            /\ lastOp'.writes = 1
                 => /\ Field(db', reference) = Some(TRUE)
                    /\ ~Exists(db', DevicePath(lastOp'.deviceId, <<>>))
                    /\ db' = Set(db, reference, Leaf(TRUE))
    ]_vars

\* the subtree write of u1's second device failed: u1 lists two devices and
\* only one of them has a subtree
C17_Witness ==
  /\ lastOp.name = "addDeviceToUser"
  /\ lastOp.writes = 1
  /\ lastOp.result = FALSE
  /\ lastOp.userId = "u1"
  /\ \A d \in DeviceKeys : Field(db, <<"users", "u1", "devices", d>>) = Some(TRUE)
  /\ ~Exists(db, DevicePath(lastOp.deviceId, <<>>))
  /\ \E d \in DeviceKeys : Exists(db, DevicePath(d, <<"cleaningControl">>))

\* C18: after a successful deleteDevice(userId, deviceId) neither
\* users/{userId}/devices/{deviceId} nor any part of devices/{deviceId}
\* exists, and the references and subtrees of all other devices are unchanged.
C18_DeleteDevice ==
  [][( /\ lastOp'.name = "deleteDevice"
       /\ lastOp'.result )
     => /\ ~Exists(db', <<"users", lastOp'.userId, "devices", lastOp'.deviceId>>)
        /\ ~Exists(db', DevicePath(lastOp'.deviceId, <<>>))
        /\ \A d \in DeviceKeys \ {lastOp'.deviceId} :
             /\ Subtree(db', DevicePath(d, <<>>)) = Subtree(db, DevicePath(d, <<>>))
             /\ \A u \in UserIds :
                  Field(db', <<"users", u, "devices", d>>)
                    = Field(db, <<"users", u, "devices", d>>)
    ]_vars

\* u1 deleted one of its two devices: the other one is still listed and
\* still has the mode it was given
C18_Witness ==
  /\ lastOp.name = "deleteDevice"
  /\ lastOp.result
  /\ lastOp.userId = "u1"
  /\ ~Exists(db, DevicePath(lastOp.deviceId, <<>>))
  /\ \E d \in DeviceKeys \ {lastOp.deviceId} :
       /\ Field(db, <<"users", "u1", "devices", d>>) = Some(TRUE)
       /\ Field(db, DevicePath(d, <<"info", "ownerId">>)) = Some("u1")
       /\ Field(db, CC(d, <<"mode">>)) = Some("automatic")

(***************************************************************************)
(* Properties of the dashboard's device selection                          *)
(***************************************************************************)
\* C20: after any sequence of device selections the subscriptions of the
\* previously selected device have been released before those of the new
\* device were attached: the active subscriptions are always exactly the (at
\* most four: environment, panelParameters, panelStatus, cleaningControl)
\* subscriptions of the device that was selected, and their number never
\* grows.
C20_AsStated ==
  /\ subscriptions = IF selectedDeviceId = "" THEN NoSubscriptions
                     ELSE SubscribedOnly(selectedDeviceId)
  /\ lastOp.name = "selectDevice" => selectedDeviceId = lastOp.deviceId

(***************************************************************************)
(* Properties of the operations against a rejecting store                  *)
(***************************************************************************)
\* the names lastOp takes for the backend-facing operations; batchUpdateDevice
\* is called by the dashboard's stop button
BackendOperations ==
  {"sendCleaningCommand", "updateSensorData", "updateCleaningProgress",
   "reportError", "setDeviceStatus", "addDeviceToUser", "deleteDevice",
   "updateDeviceData", "stopCleaning", "updateDustLevel"}

\* the operations that make two store writes in a row
TwoWriteOperations == {"addDeviceToUser", "deleteDevice"}

\* C21: every backend-facing operation (sendCleaningCommand,
\* updateSensorData, updateCleaningProgress, reportError, setDeviceStatus,
\* addDeviceToUser, deleteDevice, updateDeviceData, batchUpdateDevice,
\* updateDustLevel) answers a failed store call with success = false, and the
\* operations made of a single store update leave the store as it was.
C21_FailureIsCaught ==
  [][( /\ lastOp'.name \in BackendOperations
       /\ ~lastOp'.storeOk )
     => /\ lastOp'.result = FALSE
        /\ lastOp'.name \notin TwoWriteOperations => db' = db
    ]_vars

\* while d1 was cleaning and a second device had been added, the store
\* rejected a sensor report, which was answered with success = false
C21_Witness ==
  /\ lastOp.name = "updateSensorData"
  /\ ~lastOp.storeOk
  /\ lastOp.result = FALSE
  /\ Field(db, CC("d1", <<"status">>)) = Some("cleaning")
  /\ Field(db, DevicePath("d1", <<"panelParameters", "power">>)) = Some(0)
  /\ Exists(db, DevicePath("d2", <<>>))

(***************************************************************************)
(* Properties of the sync layer and the dashboard on one device            *)
(***************************************************************************)
\* C22: after provisioning, the telemetry subtrees environment and
\* panelParameters are modified only by updateSensorData: no dashboard
\* command (start, stop, mode, method, PWM), no cleaning-control operation
\* (sendCleaningCommand, updateCleaningProgress, reportError) and no
\* dust-level update changes them, and updateSensorData never modifies
\* cleaningControl or panelStatus.
C22_TelemetryFrame ==
  [][LET same(rel) == Subtree(db', DevicePath("d1", rel)) = Subtree(db, DevicePath("d1", rel))
     IN  /\ lastOp'.name # "updateSensorData"
              => same(<<"environment">>) /\ same(<<"panelParameters">>)
         /\ lastOp'.name = "updateSensorData"
              => same(<<"cleaningControl">>) /\ same(<<"panelStatus">>)
    ]_vars

\* a report was ingested while d1 was cleaning in automatic mode with an
\* updated dust level: the readings are the report's, the rest is as before
C22_Witness ==
  /\ Ingested
  /\ Field(db, DevicePath("d1", <<"environment", "humidity">>)) = Some(40)
  /\ Field(db, DevicePath("d1", <<"panelParameters", "power">>)) = Some(24)
  /\ Field(db, CC("d1", <<"status">>)) = Some("cleaning")
  /\ Field(db, CC("d1", <<"mode">>)) = Some("automatic")
  /\ Field(db, DevicePath("d1", <<"panelStatus", "dustLevel">>)) = Some(152)

\* the operations on cleaningControl of the dashboard and of the device
ControlOperations ==
  {"startCleaning", "stopCleaning", "updateDeviceData", "sendCleaningCommand",
   "updateCleaningProgress", "reportError"}

\* C23: the operations on cleaningControl issued by the dashboard (start,
\* stop, mode, method, PWM) and by the device (progress updates, error
\* reports) are applied without lock, version check or current-state check:
\* in every interleaving each one can be applied, is applied as one whole
\* update and succeeds, and every path written by several of them holds the
\* value of the one applied last.
C23_LastWriteWins ==
  /\ [](/\ ENABLED StartCleaning(TRUE)
        /\ ENABLED StopCleaning(TRUE)
        /\ ENABLED UpdateCleaningMode("automatic", TRUE)
        /\ ENABLED UpdateCleaningMethod("wet", TRUE)
        /\ ENABLED UpdatePWM("dry", 200, TRUE)
        /\ ENABLED UpdateCleaningProgress("d1", 100, 3, TRUE)
        /\ ENABLED ReportError("d1", "motor stalled", TRUE))
  /\ [][LET status == Field(db', CC("d1", <<"status">>))
            trigger == Field(db', CC("d1", <<"trigger">>))
            progress == Field(db', CC("d1", <<"currentOperation", "progress">>))
            waterUsed == Field(db', CC("d1", <<"currentOperation", "waterUsed">>))
        IN  /\ lastOp'.name \in ControlOperations => lastOp'.result = TRUE
            /\ lastOp'.name = "startCleaning"
                 => /\ status = Some("cleaning") /\ trigger = Some(1)
                    /\ progress = Some(0) /\ waterUsed = Some(0)
            /\ lastOp'.name = "stopCleaning"
                 => status = Some("idle") /\ trigger = Some(0)
            /\ lastOp'.name = "reportError"
                 => status = Some("error") /\ trigger = Some(0)
            /\ lastOp'.name = "updateCleaningProgress"
                 => /\ progress \in {Some(99), Some(100)}
                    /\ waterUsed = Some(3)
                    /\ progress = Some(100)
                         => status = Some("completed") /\ trigger = Some(0)
       ]_vars

\* the dashboard's stop was applied after the device had reported the
\* cleaning complete: status holds the dashboard's 'idle', progress and
\* lastCleaning hold what the device wrote
C23_Witness ==
  /\ lastOp.name = "stopCleaning"
  /\ lastOp.result
  /\ Field(db, CC("d1", <<"status">>)) = Some("idle")
  /\ Field(db, CC("d1", <<"currentOperation", "progress">>)) = Some(100)
  /\ Field(db, CC("d1", <<"autoSettings", "lastCleaning">>)) = Some(now)
  /\ Field(db, CC("d1", <<"lastError", "message">>)) = Some("motor stalled")

\* the step is a successful progress update that reported completion
CompletionReported ==
  /\ lastOp'.name = "updateCleaningProgress"
  /\ lastOp'.result
  /\ Field(db', CC("d1", <<"currentOperation", "progress">>)) \in {Some(100), Some(101)}

\* the statement of C25 as it stands: a progress update completes a cleaning
\* device only, so that the status before a step that sets 'completed' is
\* 'cleaning'
C25_AsStated ==
  [][( CompletionReported /\ Field(db', CC("d1", <<"status">>)) = Some("completed") )
       => Field(db, CC("d1", <<"status">>)) = Some("cleaning")]_vars

\* C25: the only step that sets the cleaning status to 'completed' is the
\* progress update with progress >= 100, and that update sets it whatever the
\* status was before (idle, cleaning, completed or error): no operation
\* checks that the device is cleaning.
C25_CompletedByProgressOnly ==
  [][/\ ( /\ Field(db', CC("d1", <<"status">>)) = Some("completed")
          /\ Field(db, CC("d1", <<"status">>)) # Some("completed") )
        => CompletionReported
     /\ CompletionReported
        => Field(db', CC("d1", <<"status">>)) = Some("completed")
    ]_vars

\* a device that was never started (no start time) stands completed after a
\* progress update of 100
C25_Witness ==
  /\ lastOp.name = "updateCleaningProgress"
  /\ lastOp.result
  /\ Field(db, CC("d1", <<"status">>)) = Some("completed")
  /\ Field(db, CC("d1", <<"currentOperation", "progress">>)) = Some(100)
  /\ Field(db, CC("d1", <<"currentOperation", "startTime">>)) = Null

\* C26: a start command (sendCleaningCommand with trigger 1, or the
\* dashboard's startCleaning) is accepted from every status, with no check of
\* the current state: it can be issued in every state and always results in
\* status 'cleaning', trigger 1, progress 0 and waterUsed 0 with the start time
\* set to the time of the command, so a start issued during a cleaning
\* restarts the operation.
C26_StartFromAnyStatus ==
  /\ [](/\ ENABLED StartCleaning(TRUE)
        /\ ENABLED SendCleaningCommand("d1", 1, "dry", 200, TRUE))
  /\ [][( /\ lastOp'.result
          /\ \/ lastOp'.name = "startCleaning"
             \/ /\ lastOp'.name = "sendCleaningCommand"
                /\ Field(db', CC("d1", <<"trigger">>)) = Some(1) )
        => /\ Field(db', CC("d1", <<"status">>)) = Some("cleaning")
           /\ Field(db', CC("d1", <<"trigger">>)) = Some(1)
           /\ Field(db', CC("d1", <<"currentOperation", "progress">>)) = Some(0)
           /\ Field(db', CC("d1", <<"currentOperation", "waterUsed">>)) = Some(0)
           /\ Field(db', CC("d1", <<"currentOperation", "startTime">>)) = Some(now')
       ]_vars

\* a device that had completed a cleaning and then reported an error at time
\* 1 was started again from the dashboard at time 2
C26_Witness ==
  /\ lastOp.name = "startCleaning"
  /\ lastOp.result
  /\ now = 2
  /\ Field(db, CC("d1", <<"status">>)) = Some("cleaning")
  /\ Field(db, CC("d1", <<"currentOperation", "progress">>)) = Some(0)
  /\ Field(db, CC("d1", <<"currentOperation", "startTime">>)) = Some(2)
  /\ Field(db, CC("d1", <<"autoSettings", "lastCleaning">>)) = Some(1)
  /\ Field(db, CC("d1", <<"lastError", "timestamp">>)) = Some(1)

\* the update objects of the operations on cleaningControl, at the current time
ControlUpdates ==
       {SendCleaningCommandUpdates("d1", trigger, method, 200, now, now) :
          trigger \in Triggers, method \in Methods}
  \cup {UpdateCleaningProgressUpdates("d1", progress, 3, now) : progress \in Progresses}
  \cup {ReportErrorUpdates("d1", "motor stalled", now)}
  \cup {BatchUpdateDeviceUpdates("d1", StartCleaningUpdates(now)),
        BatchUpdateDeviceUpdates("d1", StopCleaningUpdates)}

\* C27: in every state reachable from a provisioned device by any
\* interleaving of sendCleaningCommand (trigger 0 or 1), updateCleaningProgress,
\* reportError and the dashboard's start, stop, mode, method and PWM changes,
\* cleaningControl.trigger is 1 exactly when cleaningControl.status is
\* 'cleaning': every operation that writes one of the two writes the other in
\* the same multi-path update.
C27_TriggerIffCleaning ==
  /\ Field(db, CC("d1", <<"trigger">>)) = Some(1)
       <=> Field(db, CC("d1", <<"status">>)) = Some("cleaning")
  /\ \A updates \in ControlUpdates :
       CC("d1", <<"trigger">>) \in DOMAIN updates
         <=> CC("d1", <<"status">>) \in DOMAIN updates

\* a device started by a command after it had completed a cleaning and
\* reported an error: trigger 1 with status 'cleaning'
C27_Witness ==
  /\ lastOp.name = "sendCleaningCommand"
  /\ Field(db, CC("d1", <<"trigger">>)) = Some(1)
  /\ Field(db, CC("d1", <<"status">>)) = Some("cleaning")
  /\ Field(db, CC("d1", <<"mode">>)) = Some("automatic")
  /\ Field(db, CC("d1", <<"autoSettings", "lastCleaning">>)) = Some(now)
  /\ Field(db, CC("d1", <<"lastError", "message">>)) = Some("motor stalled")

\* the settings of the auto-cleaning rule that provisioning writes
AutoSettingPaths ==
  {CC("d1", <<"autoSettings", key>>) :
     key \in {"enabled", "dustThreshold", "schedule", "scheduleEnabled"}}

\* C28: in every device state reachable from provisioning through the
\* sync-layer and dashboard operations (sendCleaningCommand,
\* updateCleaningProgress, reportError, updateSensorData, updateDustLevel,
\* dashboard start/stop, mode, method and PWM changes), autoSettings.enabled,
\* dustThreshold, schedule and scheduleEnabled keep their provisioning
\* defaults (enabled = false), and switching the mode changes only
\* cleaningControl.mode; so shouldTriggerAutoCleaning returns false in every
\* such state, whatever the dust level and however long ago the last cleaning.
C28_AutoCleaningStaysOff ==
  /\ [](/\ \A path \in AutoSettingPaths :
             Field(db, path) = Field(ProvisionedStore(MaxTime), path)
        /\ Field(db, CC("d1", <<"autoSettings", "enabled">>)) = Some(FALSE)
        /\ \A e \in ElapsedHours : ~ShouldTriggerAutoCleaning(db, "d1", now + e)
        /\ lastOp.name = "shouldTriggerAutoCleaning" => lastOp.result = FALSE)
  /\ [][LET mode == CC("d1", <<"mode">>)
        IN  Field(db', mode) # Field(db, mode)
              => [p \in DOMAIN db' \ {mode} |-> db'[p]]
                   = [p \in DOMAIN db \ {mode} |-> db[p]]
       ]_vars

\* the rule was read and answered false for a device in automatic mode whose
\* dust level (152) is above the threshold (100)
C28_Witness ==
  /\ lastOp.name = "shouldTriggerAutoCleaning"
  /\ lastOp.storeOk
  /\ lastOp.result = FALSE
  /\ Field(db, CC("d1", <<"mode">>)) = Some("automatic")
  /\ Field(db, DevicePath("d1", <<"panelStatus", "dustLevel">>)) = Some(152)
  /\ Field(db, CC("d1", <<"autoSettings", "dustThreshold">>)) = Some(100)
  /\ Field(db, CC("d1", <<"autoSettings", "lastCleaning">>)) = Some(now)

\* the stored dust level has reached the stored threshold
DustAtThreshold(store) ==
  LET level == DevicePath("d1", <<"panelStatus", "dustLevel">>)
      threshold == CC("d1", <<"autoSettings", "dustThreshold">>)
  IN  /\ level \in DOMAIN store
      /\ threshold \in DOMAIN store
      /\ store[level] >= store[threshold]

\* C29: sendCleaningCommand, updateCleaningProgress and reportError never
\* modify panelStatus, so completing a cleaning leaves panelStatus.dustLevel
\* unchanged; for a device with auto-cleaning enabled and dustLevel >=
\* dustThreshold, shouldTriggerAutoCleaning returns true also right after the
\* cleaning completed, and it stops returning true only through a dust-level
\* update that lowers the level.
C29_DustSurvivesCleaning ==
  /\ []( DustAtThreshold(db)
           => /\ ShouldTriggerAutoCleaning(db, "d1", now)
              /\ ( lastOp.name = "shouldTriggerAutoCleaning" /\ lastOp.storeOk )
                   => lastOp.result = TRUE )
  /\ [][LET panelStatus == DevicePath("d1", <<"panelStatus">>)
            dustLevel == DevicePath("d1", <<"panelStatus", "dustLevel">>)
        IN  /\ ( lastOp'.name \in {"sendCleaningCommand", "updateCleaningProgress",
                                   "reportError"}
                   => Subtree(db', panelStatus) = Subtree(db, panelStatus) )
            /\ ( ( /\ ShouldTriggerAutoCleaning(db, "d1", now)
                   /\ ~ShouldTriggerAutoCleaning(db', "d1", now') )
                   => ( /\ lastOp'.name = "updateDustLevel"
                        /\ db'[dustLevel] < db[dustLevel] ) )
       ]_vars

\* the rule answered true for a device that has just completed a cleaning and
\* whose dust level is still 152
C29_Witness ==
  /\ lastOp.name = "shouldTriggerAutoCleaning"
  /\ lastOp.storeOk
  /\ lastOp.result = TRUE
  /\ Field(db, CC("d1", <<"status">>)) = Some("completed")
  /\ Field(db, CC("d1", <<"currentOperation", "progress">>)) = Some(100)
  /\ Field(db, CC("d1", <<"autoSettings", "lastCleaning">>)) = Some(now)
  /\ Field(db, DevicePath("d1", <<"panelStatus", "dustLevel">>)) = Some(152)

\* the stored latitude or longitude of d1 is 0
ZeroCoordinate ==
  \/ Field(db, DevicePath("d1", <<"info", "lat">>)) = Some(0)
  \/ Field(db, DevicePath("d1", <<"info", "lon">>)) = Some(0)

\* C30: updateDustLevel treats a latitude or longitude of 0 as 'location not
\* set': for a device provisioned without coordinates (lat = 0, lon = 0), or
\* whose lat or lon is 0, it returns a failure before any request to a
\* provider and writes nothing to panelStatus, so after any number of periodic
\* updates panelStatus is still as provisioning wrote it.
C30_ZeroCoordinateNeverUpdated ==
  ZeroCoordinate
    => /\ Subtree(db, DevicePath("d1", <<"panelStatus">>))
            = Subtree(ProvisionedStore(1), DevicePath("d1", <<"panelStatus">>))
       /\ lastOp.name = "updateDustLevel"
            => lastOp.result = FALSE /\ lastOp.fetches = 0

\* a device at latitude 12 and longitude 0 with a configured provider and
\* key: an update at time 2, whose request would have been answered with a
\* high dust reading, failed without a request and the dust level is still 0
C30_Witness ==
  /\ lastOp.name = "updateDustLevel"
  /\ lastOp.storeOk
  /\ lastOp.response = Some([pm2_5 |-> Some(140), pm10 |-> Some(164)])
  /\ lastOp.result = FALSE
  /\ lastOp.fetches = 0
  /\ now = 2
  /\ Field(db, DevicePath("d1", <<"info", "lat">>)) = Some(12)
  /\ Field(db, DevicePath("d1", <<"info", "lon">>)) = Some(0)
  /\ WeatherConfig(db) = [provider |-> "openweathermap", apiKey |-> "key"]
  /\ Field(db, DevicePath("d1", <<"panelStatus", "dustLevel">>)) = Some(0)

(***************************************************************************)
(* Properties of the browser storage                                       *)
(***************************************************************************)
\* C24: an entry written by saveCachedData(key, data, expirationMinutes) is
\* returned by getCachedData(key) as long as the current time is not past its
\* expiration (the save time plus expirationMinutes); once the time is past
\* it, getCachedData returns null and removes the entry, so that every later
\* read finds it absent. StorageUtil.setWithExpiry and getWithExpiry do the
\* same with their ttl, a read that finds nothing answering the default value
\* (null when none is given).
C24_CacheExpiry ==
  [][LET cacheKey == CacheKey("forecast")
         utilKey == "token"
     IN  /\ ( lastOp'.name = "saveCachedData" /\ lastOp'.result )
              => /\ cacheKey \in DOMAIN localStorage'
                 /\ Property(localStorage'[cacheKey], "data") = lastOp'.data
                 /\ Property(localStorage'[cacheKey], "expiration")
                      = JsNumber(now' + lastOp'.expirationMinutes * 60000)
         /\ lastOp'.name = "getCachedData"
              => IF cacheKey \in DOMAIN localStorage
                 THEN IF now <= localStorage[cacheKey]["expiration"].v
                      THEN /\ lastOp'.result = Property(localStorage[cacheKey], "data")
                           /\ localStorage' = localStorage
                      ELSE /\ lastOp'.result = JsNull
                           /\ cacheKey \notin DOMAIN localStorage'
                 ELSE lastOp'.result = JsNull
         /\ ( cacheKey \notin DOMAIN localStorage /\ lastOp'.name # "saveCachedData" )
              => cacheKey \notin DOMAIN localStorage'
         /\ ( lastOp'.name = "setWithExpiry" /\ lastOp'.result )
              => /\ utilKey \in DOMAIN localStorage'
                 /\ Property(localStorage'[utilKey], "value") = lastOp'.value
                 /\ Property(localStorage'[utilKey], "expiry")
                      = JsNumber(now' + lastOp'.ttl)
         /\ lastOp'.name = "getWithExpiry"
              => IF utilKey \in DOMAIN localStorage
                 THEN IF now <= localStorage[utilKey]["expiry"].v
                      THEN /\ lastOp'.result = Property(localStorage[utilKey], "value")
                           /\ localStorage' = localStorage
                      ELSE /\ lastOp'.result = lastOp'.defaultValue
                           /\ utilKey \notin DOMAIN localStorage'
                 ELSE lastOp'.result = lastOp'.defaultValue
         /\ ( utilKey \notin DOMAIN localStorage /\ lastOp'.name # "setWithExpiry" )
              => utilKey \notin DOMAIN localStorage'
    ]_vars

\* an entry saved for one minute was read at the very millisecond of its
\* expiration and returned
C24_Witness ==
  /\ lastOp.name = "getCachedData"
  /\ lastOp.result = JsNumber(7)
  /\ now = MsPerMinute
  /\ CacheKey("forecast") \in DOMAIN localStorage
  /\ localStorage[CacheKey("forecast")]["timestamp"] = JsNumber(0)
  /\ localStorage[CacheKey("forecast")]["expiration"] = JsNumber(MsPerMinute)

====
